---- MODULE Spec2Model ----
(***************************************************************************)
(* Match ingestion, identity resolution and bulk scanning of Bot.py.       *)
(* Text that the code inspects character by character (platform IDs,       *)
(* profile names, match IDs, aliases) is a sequence of one-character       *)
(* strings; display labels the code only copies or compares as a whole    *)
(* (race names, map names) are strings.  A JSON field that may be absent   *)
(* is a set: {} when absent, {v} when present with value v.                *)
(***************************************************************************)
EXTENDS Integers, Sequences, FiniteSets, TLC

VARIABLES
    stored_matches,       \* insertion-ordered dict match_id -> MatchData, as a sequence of MatchData
    processed_match_ids,  \* set of match_id strings
    player_aliases,       \* dict steam_id -> alias, as a function on its key set
    match_file,           \* match_data.json
    alias_file,           \* player_aliases.json
    last,                 \* the last store-level call: its name, arguments, result and pre-state
    scan,                 \* the running bulk_scan_for_matches coroutine (locals, position, results)
    conn                  \* connection_manager and the fetch_json coroutines that share it

vars == <<stored_matches, processed_match_ids, player_aliases, match_file, alias_file, last, scan, conn>>

----------------------------------------------------------------------------
(* Bounds of the model *)

MaxMatchId == 2
MaxFailures == 1
MaxRealPlayers == 1
MaxPlayerPages == 1
MaxCallers == 2
MaxSessions == 2

----------------------------------------------------------------------------
(* Text helpers *)

Present(f) == f # {}
Val(f) == CHOOSE x \in f : TRUE

AsciiDigits == {"0", "1", "2", "3", "4", "5", "6", "7", "8", "9"}
\* str.isdigit() also accepts digits outside ASCII; the one-character string written
\* "U+0663" here stands for the character ARABIC-INDIC DIGIT THREE
OtherDigits == {"U+0663"}

IsDigitChar(c) == c \in AsciiDigits \cup OtherDigits

\* str.isdigit(): non-empty and every character is a digit
IsDigit(s) == Len(s) > 0 /\ \A i \in 1..Len(s) : IsDigitChar(s[i])

validate_steamid(steam_id) == IsDigit(steam_id) /\ Len(steam_id) = 17

SteamPrefix == <<"/", "s", "t", "e", "a", "m", "/">>

StartsWith(s, p) == Len(s) >= Len(p) /\ SubSeq(s, 1, Len(p)) = p

\* str.replace(p, ''): every non-overlapping occurrence of p, left to right, is removed
RECURSIVE RemoveAll(_, _)
RemoveAll(s, p) ==
    IF Len(s) < Len(p) THEN s
    ELSE IF SubSeq(s, 1, Len(p)) = p THEN RemoveAll(SubSeq(s, Len(p) + 1, Len(s)), p)
    ELSE <<Head(s)>> \o RemoveAll(Tail(s), p)

DigitChar(d) == CASE d = 0 -> "0" [] d = 1 -> "1" [] d = 2 -> "2" [] d = 3 -> "3" [] d = 4 -> "4"
                  [] d = 5 -> "5" [] d = 6 -> "6" [] d = 7 -> "7" [] d = 8 -> "8" [] d = 9 -> "9"

\* str(n) for a non-negative integer n
RECURSIVE StrOfNat(_)
StrOfNat(n) == IF n < 10 THEN <<DigitChar(n)>> ELSE StrOfNat(n \div 10) \o <<DigitChar(n % 10)>>

UnknownPlayer == <<"U", "n", "k", "n", "o", "w", "n", " ", "P", "l", "a", "y", "e", "r">>

RACE_MAP == [r \in 0..8 |->
    CASE r = 0 -> "Chaos" [] r = 1 -> "Dark Eldar" [] r = 2 -> "Eldar" [] r = 3 -> "Imperial Guard"
      [] r = 4 -> "Necrons" [] r = 5 -> "Orks" [] r = 6 -> "Sisters of Battle"
      [] r = 7 -> "Space Marines" [] r = 8 -> "Tau Empire"]

\* RACE_MAP.get(race_id, f"Race {race_id}")
RaceName(race_id) == IF race_id \in DOMAIN RACE_MAP THEN RACE_MAP[race_id] ELSE "Race " \o ToString(race_id)

----------------------------------------------------------------------------
(* Alias directory *)

\* dict assignment d[k] = v
DictPut(d, k, v) == [x \in (DOMAIN d) \cup {k} |-> IF x = k THEN v ELSE d[x]]

EmptyDict == [x \in {} |-> <<>>]

\* the mutation of store_player_alias that writes and reports a change without comparing the
\* alias with the stored one
store_player_aliasAlwaysChanged(pa, steam_id, alias) ==
    IF ~validate_steamid(steam_id) \/ alias = <<>> \/ alias = UnknownPlayer
    THEN [pa |-> pa, changed |-> FALSE]
    ELSE [pa |-> DictPut(pa, steam_id, alias), changed |-> TRUE]

\* store_player_alias, on the directory pa: the directory after the call and the returned flag.
\* alias is the text handed in; the empty text is falsy.
store_player_alias(pa, steam_id, alias) ==
    IF ~validate_steamid(steam_id) \/ alias = <<>> \/ alias = UnknownPlayer
    THEN [pa |-> pa, changed |-> FALSE]
    ELSE IF steam_id \notin DOMAIN pa \/ pa[steam_id] # alias
         THEN [pa |-> DictPut(pa, steam_id, alias), changed |-> TRUE]
         ELSE [pa |-> pa, changed |-> FALSE]

\* profile.get('alias', 'Unknown Player')
AliasOf(profile) == IF Present(profile.alias) THEN Val(profile.alias) ELSE UnknownPlayer

\* a JSON null where a text is expected: the value None, which has no startswith
Null == <<"null">>

\* profile.get('name', '')
NameOf(profile) == IF Present(profile.name) THEN Val(profile.name) ELSE <<>>

----------------------------------------------------------------------------
(* Match store: the insertion-ordered dict stored_matches is a sequence of *)
(* MatchData records with pairwise different match_id.                     *)

Keys(sm) == {sm[i].match_id : i \in 1..Len(sm)}

\* stored_matches[match_id] = match_data: a present key keeps its position
MatchPut(sm, md) ==
    IF md.match_id \in Keys(sm)
    THEN [i \in 1..Len(sm) |-> IF sm[i].match_id = md.match_id THEN md ELSE sm[i]]
    ELSE Append(sm, md)

get_stored_match_count(sm) == Len(sm)

\* results_map.get(profile_id, -1) of the dict comprehension over matchhistoryreportresults:
\* the last entry of a profile_id wins
RECURSIVE ResultOf(_, _, _)
ResultOf(results, i, profile_id) ==
    IF i = 0 THEN -1
    ELSE IF Val(results[i].profile_id) = profile_id THEN Val(results[i].resulttype)
    ELSE ResultOf(results, i - 1, profile_id)

\* result['profile_id'] and result['resulttype'] raise KeyError on an entry that lacks them
ResultsWellFormed(results) ==
    \A i \in 1..Len(results) : Present(results[i].profile_id) /\ Present(results[i].resulttype)

\* the inner loop over profiles for one member: "raise" on a profile without profile_id,
\* "found" at the first profile of that profile_id whose name starts with /steam/, else "none"
RECURSIVE LookupProfile(_, _, _)
LookupProfile(profiles, i, profile_id) ==
    IF i > Len(profiles) THEN [kind |-> "none"]
    ELSE IF ~Present(profiles[i].profile_id) THEN [kind |-> "raise"]
    ELSE IF Val(profiles[i].profile_id) = profile_id /\ NameOf(profiles[i]) = Null THEN [kind |-> "raise"]
    ELSE IF Val(profiles[i].profile_id) = profile_id /\ StartsWith(NameOf(profiles[i]), SteamPrefix)
         THEN [kind |-> "found",
               steam_id |-> RemoveAll(NameOf(profiles[i]), SteamPrefix),
               alias |-> AliasOf(profiles[i])]
    ELSE LookupProfile(profiles, i + 1, profile_id)

\* one iteration of the loop over members: the players_data entry, a rejection or an exception
PlayerData(member, profiles, results) ==
    IF ~Present(member.profile_id) THEN [kind |-> "raise"]
    ELSE LET hit == LookupProfile(profiles, 1, Val(member.profile_id))
         IN IF hit.kind = "raise" THEN [kind |-> "raise"]
            ELSE IF hit.kind = "none" THEN [kind |-> "reject"]
            ELSE IF hit.steam_id = <<>> \/ ~validate_steamid(hit.steam_id) THEN [kind |-> "reject"]
            ELSE IF ~Present(member.race_id) \/ ~Present(member.oldrating) \/ ~Present(member.newrating)
                 THEN [kind |-> "raise"]
            ELSE [kind |-> "ok",
                  steam_id |-> hit.steam_id,
                  alias |-> hit.alias,
                  race_name |-> RaceName(Val(member.race_id)),
                  old_elo |-> Val(member.oldrating),
                  new_elo |-> Val(member.newrating),
                  is_winner |-> (ResultOf(results, Len(results), Val(member.profile_id)) = 1)]

\* the mutation of WinnerData that takes the first player who is not the winner
WinnerDataInverted(players_data) ==
    IF ~players_data[1].is_winner THEN {players_data[1]}
    ELSE IF ~players_data[2].is_winner THEN {players_data[2]}
    ELSE {}

\* next((p for p in players_data if p['is_winner']), None)
WinnerData(players_data) ==
    IF players_data[1].is_winner THEN {players_data[1]}
    ELSE IF players_data[2].is_winner THEN {players_data[2]}
    ELSE {}

MatchDataOf(match_id, match, players_data, winner_data) ==
    [match_id |-> match_id,
     map_name |-> IF Present(match.mapname) THEN Val(match.mapname) ELSE "Unknown Map",
     start_time |-> IF Present(match.startgametime) THEN Val(match.startgametime) ELSE 0,
     completion_time |-> IF Present(match.completiontime) THEN Val(match.completiontime) ELSE 0,
     player1_steamid |-> players_data[1].steam_id,
     player1_alias |-> players_data[1].alias,
     player1_race |-> players_data[1].race_name,
     player1_old_elo |-> players_data[1].old_elo,
     player1_new_elo |-> players_data[1].new_elo,
     player2_steamid |-> players_data[2].steam_id,
     player2_alias |-> players_data[2].alias,
     player2_race |-> players_data[2].race_name,
     player2_old_elo |-> players_data[2].old_elo,
     player2_new_elo |-> players_data[2].new_elo,
     winner_steamid |-> winner_data.steam_id,
     winner_race |-> winner_data.race_name]

Rejected(st, why) == [inserted |-> FALSE, reason |-> why, sm |-> st.sm, pm |-> st.pm, pa |-> st.pa]

\* the loop over the two members: the first member that rejects or raises ends the call
MembersOutcome(members, profiles, results) ==
    LET p1 == PlayerData(members[1], profiles, results)
    IN IF p1.kind # "ok" THEN [kind |-> p1.kind]
       ELSE LET p2 == PlayerData(members[2], profiles, results)
            IN IF p2.kind # "ok" THEN [kind |-> p2.kind]
               ELSE [kind |-> "ok", players_data |-> <<p1, p2>>]

\* players_data's aliases offered to the alias directory, in order
OfferAliases(pa, players_data) ==
    store_player_alias(store_player_alias(pa, players_data[1].steam_id, players_data[1].alias).pa,
                       players_data[2].steam_id, players_data[2].alias).pa

\* the mutation of StoreNormalized that offers the aliases before it looks for the winner
StoreNormalizedAliasesFirst(st, match_id, match, players_data) ==
    LET winner == WinnerData(players_data)
        st1 == [st EXCEPT !.pa = OfferAliases(st.pa, players_data)]
    IN IF winner = {} THEN Rejected(st1, "nowinner")
       ELSE [inserted |-> TRUE, reason |-> "stored",
             sm |-> MatchPut(st.sm, MatchDataOf(match_id, match, players_data, Val(winner))),
             pm |-> st.pm \cup {match_id},
             pa |-> st1.pa]

\* the end of store_match_from_history, once players_data holds both players: the winner
\* check, the aliases, the MatchData and the two insertions
StoreNormalized(st, match_id, match, players_data) ==
    LET winner == WinnerData(players_data)
    IN IF winner = {} THEN Rejected(st, "nowinner")
       ELSE [inserted |-> TRUE, reason |-> "stored",
             sm |-> MatchPut(st.sm, MatchDataOf(match_id, match, players_data, Val(winner))),
             pm |-> st.pm \cup {match_id},
             pa |-> OfferAliases(st.pa, players_data)]

\* store_match_from_history on the in-memory state st = [sm, pm, pa], without the two saves of
\* the non-batch mode: the state after the call, the returned flag and, for a False, which
\* return statement produced it ("error" is the except clause)
store_match_from_history(st, match, profiles) ==
    IF ~Present(match.id) THEN Rejected(st, "error")
    ELSE LET match_id == StrOfNat(Val(match.id))
             members == match.matchhistorymember
             results == match.matchhistoryreportresults
         IN IF match_id \in st.pm THEN Rejected(st, "known")
            ELSE IF match.matchtype_id # 1 THEN Rejected(st, "type")
            ELSE IF Len(members) # 2 THEN Rejected(st, "count")
            ELSE IF ~ResultsWellFormed(results) THEN Rejected(st, "error")
            ELSE LET mo == MembersOutcome(members, profiles, results)
                 IN IF mo.kind = "raise" THEN Rejected(st, "error")
                    ELSE IF mo.kind = "reject" THEN Rejected(st, "unresolved")
                    ELSE StoreNormalized(st, match_id, match, mo.players_data)

----------------------------------------------------------------------------
(* extract_elos: one player's match history *)

\* filter_1v1_matches: the generator keeps the records of match type 1
Ranked(matches) == SelectSeq(matches, LAMBDA m : m.matchtype_id = 1)

\* x placed behind the entries whose completiontime is not smaller
RECURSIVE InsertDesc(_, _)
InsertDesc(sorted, x) ==
    IF sorted = <<>> THEN <<x>>
    ELSE IF Val(Head(sorted).completiontime) >= Val(x.completiontime)
         THEN <<Head(sorted)>> \o InsertDesc(Tail(sorted), x)
         ELSE <<x>> \o sorted

\* sorted(filtered, key=lambda m: m['completiontime'], reverse=True): stable, descending
RECURSIVE SortedDesc(_, _)
SortedDesc(matches, i) ==
    IF i = 0 THEN <<>> ELSE InsertDesc(SortedDesc(matches, i - 1), matches[i])

\* the key function raises KeyError on a record without completiontime
SortRaises(matches) == \E i \in 1..Len(matches) : ~Present(matches[i].completiontime)

\* the loop of extract_elos over profiles: the first profile named /steam/<steam_id>
RECURSIVE FindPlayerProfile(_, _, _)
FindPlayerProfile(profiles, i, steam_id) ==
    IF i > Len(profiles) THEN [kind |-> "none"]
    ELSE IF profiles[i].name = {SteamPrefix \o steam_id}
         THEN IF ~Present(profiles[i].profile_id) THEN [kind |-> "raise"]
              ELSE [kind |-> "found", profile_id |-> Val(profiles[i].profile_id), alias |-> AliasOf(profiles[i])]
    ELSE FindPlayerProfile(profiles, i + 1, steam_id)

\* the loop of extract_elos over the sorted matches, every call in batch mode
RECURSIVE StoreAll(_, _, _, _)
StoreAll(st, matches, i, profiles) ==
    IF i > Len(matches) THEN [sm |-> st.sm, pm |-> st.pm, pa |-> st.pa, matches_stored |-> 0]
    ELSE LET r == store_match_from_history(st, matches[i], profiles)
             rest == StoreAll(r, matches, i + 1, profiles)
         IN [rest EXCEPT !.matches_stored = @ + (IF r.inserted THEN 1 ELSE 0)]

\* batch_store_aliases_from_profiles without its save: the directory, stored_count, and
\* whether the loop raised on a profile whose name is null
RECURSIVE batch_store_aliases_from_profiles(_, _, _)
batch_store_aliases_from_profiles(pa, profiles, i) ==
    IF i > Len(profiles) THEN [pa |-> pa, stored_count |-> 0, raised |-> FALSE]
    ELSE IF NameOf(profiles[i]) = Null THEN [pa |-> pa, stored_count |-> 0, raised |-> TRUE]
    ELSE IF StartsWith(NameOf(profiles[i]), SteamPrefix)
         THEN LET r == store_player_alias(pa, RemoveAll(NameOf(profiles[i]), SteamPrefix), AliasOf(profiles[i]))
                  rest == batch_store_aliases_from_profiles(r.pa, profiles, i + 1)
              IN [rest EXCEPT !.stored_count = @ + (IF r.changed THEN 1 ELSE 0)]
         ELSE batch_store_aliases_from_profiles(pa, profiles, i + 1)

Outcome(st, raised, evaluated, matches_stored, save_aliases, save_matches) ==
    [sm |-> st.sm, pm |-> st.pm, pa |-> st.pa, raised |-> raised, evaluated |-> evaluated,
     matches_stored |-> matches_stored, save_aliases |-> save_aliases, save_matches |-> save_matches]

\* extract_elos after fetch_match_history has answered with response: the in-memory state
\* it leaves, whether it raised, the records it handed to store_match_from_history, and
\* which snapshots it wrote.  response.kind is "nondict" (a JSON value without .get),
\* "empty" ({} after a failed fetch or a result code other than 0) or "data".
extract_elos(st, steam_id, response, batch_mode) ==
    IF response.kind = "nondict" THEN Outcome(st, TRUE, <<>>, 0, FALSE, FALSE)
    ELSE IF response.kind = "empty" THEN Outcome(st, FALSE, <<>>, 0, FALSE, FALSE)
    ELSE LET player == FindPlayerProfile(response.profiles, 1, steam_id)
         IN IF player.kind = "raise" THEN Outcome(st, TRUE, <<>>, 0, FALSE, FALSE)
            ELSE IF player.kind = "none" \/ player.profile_id = 0 THEN Outcome(st, FALSE, <<>>, 0, FALSE, FALSE)
            ELSE LET st1 == [st EXCEPT !.pa = store_player_alias(st.pa, steam_id, player.alias).pa]
                     ranked == Ranked(response.matchHistoryStats)
                 IN IF SortRaises(ranked) THEN Outcome(st1, TRUE, <<>>, 0, FALSE, FALSE)
                    ELSE IF ranked = <<>> THEN Outcome(st1, FALSE, <<>>, 0, FALSE, FALSE)
                    ELSE LET matches == SortedDesc(ranked, Len(ranked))
                             r == StoreAll(st1, matches, 1, response.profiles)
                             b == batch_store_aliases_from_profiles(r.pa, response.profiles, 1)
                         IN IF b.raised
                            THEN Outcome([sm |-> r.sm, pm |-> r.pm, pa |-> b.pa], TRUE, matches,
                                         r.matches_stored, FALSE, FALSE)
                            ELSE
                            Outcome([sm |-> r.sm, pm |-> r.pm, pa |-> b.pa], FALSE, matches, r.matches_stored,
                                    ~batch_mode /\ b.stored_count > 0,
                                    ~batch_mode /\ r.matches_stored > 0)

----------------------------------------------------------------------------
(* Persisted snapshots.  A file is absent, unparsable, or a parsed JSON     *)
(* document; an entry of the document's stored_matches that lacks one of    *)
(* the keys MatchData.from_dict reads has ok = FALSE.                       *)

NoFile == [exists |-> FALSE, parses |-> FALSE, stored_matches |-> <<>>, processed_match_ids |-> {}]

NoAliasFile == [exists |-> FALSE, parses |-> FALSE, player_aliases |-> EmptyDict]

\* MatchData.to_dict, per match, as written under its key
to_dict(md) == [key |-> md.match_id, ok |-> TRUE, data |-> md]

\* the document save_match_data_to_file writes
MatchDocument(sm, pm) ==
    [exists |-> TRUE, parses |-> TRUE,
     stored_matches |-> [i \in 1..Len(sm) |-> to_dict(sm[i])],
     processed_match_ids |-> pm]

\* the document save_aliases_to_file writes
AliasDocument(pa) == [exists |-> TRUE, parses |-> TRUE, player_aliases |-> pa]

\* the loop of load_match_data_from_file over the document's entries: the dict after the
\* entries before the first one from_dict raises on, and whether from_dict raised
RECURSIVE LoadEntries(_, _, _)
LoadEntries(entries, i, sm) ==
    IF i > Len(entries) THEN [sm |-> sm, raised |-> FALSE]
    ELSE IF ~entries[i].ok THEN [sm |-> sm, raised |-> TRUE]
    ELSE LoadEntries(entries, i + 1, MatchPut(sm, entries[i].data))

\* load_match_data_from_file on the in-memory pair: absent file or failing json.load leave
\* both untouched; an exception inside the loop leaves the cleared and partly refilled dict
\* and the old processed_match_ids
load_match_data_from_file(sm, pm, file) ==
    IF ~file.exists \/ ~file.parses THEN [sm |-> sm, pm |-> pm]
    ELSE LET r == LoadEntries(file.stored_matches, 1, <<>>)
         IN IF r.raised THEN [sm |-> r.sm, pm |-> pm]
            ELSE [sm |-> r.sm, pm |-> file.processed_match_ids]

\* load_aliases_from_file: an absent file leaves the directory, an exception clears it
load_aliases_from_file(pa, file) ==
    IF ~file.exists THEN pa
    ELSE IF ~file.parses THEN EmptyDict
    ELSE file.player_aliases

----------------------------------------------------------------------------
(* Upstream payloads *)

SteamIdA == <<"7", "6", "5", "6", "1", "1", "9", "8", "3", "5", "6", "9", "9", "2", "7", "5", "5">>
SteamIdB == <<"7", "6", "5", "6", "1", "1", "9", "8", "0", "0", "0", "0", "0", "0", "0", "0", "1">>
ShortId == <<"1", "2", "3", "4", "5">>

AliasAnn == <<"A", "n", "n">>
AliasBob == <<"B", "o", "b">>

Profile(pid, name, alias) == [profile_id |-> pid, name |-> name, alias |-> alias]

\* the profiles array as the API sends it for the two players A and B; profile 3 carries a
\* name that is no platform ID
PlainProfiles ==
    << Profile({1}, {SteamPrefix \o SteamIdA}, {AliasAnn}),
       Profile({2}, {SteamPrefix \o SteamIdB}, {AliasBob}),
       Profile({3}, {SteamPrefix \o ShortId}, {<<"C">>}) >>

\* a loosely structured profiles array: a non-steam entry shadowing profile 1, an entry without
\* alias, a name that repeats the prefix, and an entry without profile_id at the end
OddProfiles ==
    << Profile({1}, {<<"/", "x", "b", "o", "x", "/", "7">>}, {AliasBob}),
       Profile({1}, {SteamPrefix \o SteamIdA}, {}),
       Profile({2}, {SteamPrefix \o SteamPrefix \o SteamIdB}, {AliasBob}),
       Profile({}, {}, {}) >>

ProfileLists == {PlainProfiles, OddProfiles}

Member(pid, race, old, new) == [profile_id |-> pid, race_id |-> race, oldrating |-> old, newrating |-> new]

Result(pid, res) == [profile_id |-> pid, resulttype |-> res]

FirstMember(pid) == Member({pid}, {0}, {1500}, {1516})
SecondMember(pid) == Member({pid}, {9}, {1480}, {1464})

RawMatch(id, type, members, results) ==
    [id |-> id, matchtype_id |-> type, mapname |-> {"Blood River"},
     startgametime |-> {100}, completiontime |-> {160},
     matchhistorymember |-> members, matchhistoryreportresults |-> results]

MatchIds == 1..MaxMatchId

\* the result codes reported for one participant: a win, a loss, or no report
ResultCodes == {{1}, {0}, {}}

ResultList(p1, r1, p2, r2) ==
    (IF r1 = {} THEN <<>> ELSE <<Result({p1}, r1)>>) \o (IF r2 = {} THEN <<>> ELSE <<Result({p2}, r2)>>)

\* ranked 1v1 records with every key present: players 1 and 2 with every combination of
\* reports, one player listed twice, and a player whose profile is no platform ID
CompleteMatches ==
    { RawMatch({id}, 1, <<FirstMember(1), SecondMember(2)>>, ResultList(1, r1, 2, r2)) :
        id \in MatchIds, r1 \in ResultCodes, r2 \in ResultCodes }
    \cup { RawMatch({id}, 1, <<FirstMember(1), SecondMember(1)>>, ResultList(1, r1, 1, {})) :
        id \in MatchIds, r1 \in {{1}, {0}} }
    \cup { RawMatch({id}, 1, <<FirstMember(pp[1]), SecondMember(pp[2])>>, ResultList(pp[1], {1}, pp[2], {0})) :
        id \in MatchIds, pp \in {<<1, 3>>, <<3, 2>>} }

\* records of another match type, with one or three members, or lacking a key
OtherMatches ==
    { RawMatch({id}, 2, <<FirstMember(1), SecondMember(2)>>, ResultList(1, {1}, 2, {0})) : id \in MatchIds }
    \cup { RawMatch({1}, 1, <<FirstMember(1)>>, ResultList(1, {1}, 2, {0})),
           RawMatch({1}, 1, <<FirstMember(1), SecondMember(2), SecondMember(3)>>, ResultList(1, {1}, 2, {0})),
           RawMatch({}, 1, <<FirstMember(1), SecondMember(2)>>, ResultList(1, {1}, 2, {0})),
           RawMatch({1}, 1, <<FirstMember(1), Member({2}, {}, {1480}, {1464})>>, ResultList(1, {1}, 2, {0})),
           RawMatch({1}, 1, <<FirstMember(1), Member({2}, {9}, {}, {1464})>>, ResultList(1, {1}, 2, {0})),
           RawMatch({1}, 1, <<Member({}, {0}, {1500}, {1516}), SecondMember(2)>>, ResultList(1, {1}, 2, {0})),
           RawMatch({1}, 1, <<FirstMember(1), SecondMember(2)>>, <<Result({1}, {1}), Result({2}, {})>>) }

RawMatches == CompleteMatches \cup OtherMatches

----------------------------------------------------------------------------
(* State machine *)

Idle == [op |-> "none"]

NoPage == [kind |-> "empty", n |-> 0, entries |-> <<>>]

NoResults ==
    [total_players_processed |-> 0, new_players_found |-> 0, total_matches_added |-> 0,
     errors |-> 0, leaderboard_results |-> [x \in {} |-> 0]]

\* no bulk scan is running.  Besides the coroutine's position pc and its locals the record
\* keeps a history of the run: fetches and short_seen (page fetches issued for the current
\* leaderboard, and whether one of them returned fewer entries than requested), visited
\* (leaderboards whose pagination was entered), critical (the outer except clause was
\* reached), match_saves and alias_saves (snapshot writes since the scan began), the
\* numbers of injected failures and of listed players, and inserted (the matches the scan's
\* own calls of store_match_from_history inserted)
ScanIdle ==
    [pc |-> "idle", lb_index |-> 0, start |-> 0, page |-> NoPage, i |-> 0,
     lb_players_processed |-> 0, results |-> NoResults, steam_id |-> <<>>, pre_match_count |-> 0,
     fetches |-> 0, short_seen |-> FALSE, visited |-> {}, critical |-> FALSE,
     match_saves |-> 0, alias_saves |-> 0, faults |-> 0, players |-> 0, inserted |-> 0]

\* a fetch_json coroutine that has not been called: no session received, no result
NotCalled == [pc |-> "idle", got |-> 0, missed |-> FALSE, cause |-> "none",
              result |-> [raised |-> FALSE, value |-> "none"]]

\* connection_manager after __init__: _session is None (0; sessions are numbered from 1 in
\* the order of their creation), _lock is free (0; else the coroutine holding it)
ConnIdle ==
    [session |-> 0, closed |-> {}, lock |-> 0, created |-> 0, failures |-> 0,
     co |-> [c \in 1..MaxCallers |-> NotCalled]]

Init ==
    /\ conn = ConnIdle
    /\ stored_matches = <<>>
    /\ processed_match_ids = {}
    /\ player_aliases = EmptyDict
    /\ match_file = NoFile
    /\ alias_file = NoAliasFile
    /\ last = Idle
    /\ scan = ScanIdle

Mem == [sm |-> stored_matches, pm |-> processed_match_ids, pa |-> player_aliases]

\* a call of store_match_from_history(match, profiles, batch_mode); without batch_mode an
\* accepted match is followed by save_match_data_to_file() and save_aliases_to_file()
StoreMatch(match, profiles, batch_mode) ==
    \E r \in {store_match_from_history(Mem, match, profiles)} :
       /\ last = Idle
       /\ stored_matches' = r.sm
       /\ processed_match_ids' = r.pm
       /\ player_aliases' = r.pa
       /\ match_file' = IF r.inserted /\ ~batch_mode THEN MatchDocument(r.sm, r.pm) ELSE match_file
       /\ alias_file' = IF r.inserted /\ ~batch_mode THEN AliasDocument(r.pa) ELSE alias_file
       /\ last' = [op |-> "store_match_from_history", match |-> match, profiles |-> profiles,
                   batch_mode |-> batch_mode, inserted |-> r.inserted, reason |-> r.reason,
                   pre |-> Mem]
       /\ UNCHANGED <<conn, scan>>

\* the caller has taken the returned value
Return ==
    /\ last # Idle
    /\ last' = Idle
    /\ UNCHANGED <<conn, stored_matches, processed_match_ids, player_aliases, match_file, alias_file, scan>>

\* the ingestion callers all pass batch_mode=True
Ingest == \E match \in RawMatches, profiles \in ProfileLists : StoreMatch(match, profiles, TRUE)

Next == Ingest \/ Return

Spec == Init /\ [][Next]_vars

----------------------------------------------------------------------------
(* Persistence: saves, loads, restarts and files damaged outside the program *)

MatchWonBy(id, first) ==
    RawMatch({id}, 1, <<FirstMember(1), SecondMember(2)>>,
             IF first THEN ResultList(1, {1}, 2, {0}) ELSE ResultList(1, {0}, 2, {1}))

PersistMatches == { MatchWonBy(id, TRUE) : id \in MatchIds } \cup { MatchWonBy(1, FALSE) }

IngestPersist ==
    \E match \in PersistMatches, batch_mode \in BOOLEAN : StoreMatch(match, PlainProfiles, batch_mode)

SaveMatchData ==
    /\ last = Idle
    /\ match_file' = MatchDocument(stored_matches, processed_match_ids)
    /\ last' = [op |-> "save_match_data_to_file"]
    /\ UNCHANGED <<conn, stored_matches, processed_match_ids, player_aliases, alias_file, scan>>

SaveAliases ==
    /\ last = Idle
    /\ alias_file' = AliasDocument(player_aliases)
    /\ last' = [op |-> "save_aliases_to_file"]
    /\ UNCHANGED <<conn, stored_matches, processed_match_ids, player_aliases, match_file, scan>>

\* on_ready: load_match_data_from_file() then load_aliases_from_file(); it runs again whenever
\* the gateway session is re-established
OnReady ==
    LET r == load_match_data_from_file(stored_matches, processed_match_ids, match_file)
    IN /\ last = Idle
       /\ stored_matches' = r.sm
       /\ processed_match_ids' = r.pm
       /\ player_aliases' = load_aliases_from_file(player_aliases, alias_file)
       /\ last' = [op |-> "on_ready"]
       /\ UNCHANGED <<conn, match_file, alias_file, scan>>

\* a new process: the module-level collections start empty, then on_ready loads the files
Restart ==
    LET r == load_match_data_from_file(<<>>, {}, match_file)
    IN /\ last = Idle
       /\ stored_matches' = r.sm
       /\ processed_match_ids' = r.pm
       /\ player_aliases' = load_aliases_from_file(EmptyDict, alias_file)
       /\ last' = [op |-> "restart"]
       /\ scan' = ScanIdle
       /\ UNCHANGED <<conn, match_file, alias_file>>

\* match_data.json is cut short (it no longer parses) or one of its match entries loses a key
DamageMatchFile ==
    /\ last = Idle
    /\ match_file.exists
    /\ \/ match_file' = [match_file EXCEPT !.parses = FALSE]
       \/ \E i \in 1..Len(match_file.stored_matches) :
            match_file' = [match_file EXCEPT !.stored_matches[i].ok = FALSE]
    /\ last' = [op |-> "damage"]
    /\ UNCHANGED <<conn, stored_matches, processed_match_ids, player_aliases, alias_file, scan>>

\* player_aliases.json is cut short
DamageAliasFile ==
    /\ last = Idle
    /\ alias_file.exists
    /\ alias_file' = [alias_file EXCEPT !.parses = FALSE]
    /\ last' = [op |-> "damage"]
    /\ UNCHANGED <<conn, stored_matches, processed_match_ids, player_aliases, match_file, scan>>

NextPersist ==
    \/ IngestPersist
    \/ SaveMatchData
    \/ SaveAliases
    \/ OnReady
    \/ Restart
    \/ DamageMatchFile
    \/ DamageAliasFile
    \/ Return

SpecPersist == Init /\ [][NextPersist]_vars

----------------------------------------------------------------------------
(* bulk_scan_for_matches (the second definition, which replaces the first)  *)

FACTIONS == [f \in 1..9 |->
    CASE f = 1 -> "Chaos" [] f = 2 -> "Dark Eldar" [] f = 3 -> "Eldar" [] f = 4 -> "Imperial Guard"
      [] f = 5 -> "Necrons" [] f = 6 -> "Orks" [] f = 7 -> "Sisters of Battle"
      [] f = 8 -> "Space Marines" [] f = 9 -> "Tau Empire"]

known_leaderboards == <<1, 2, 3, 4, 5, 6, 7, 8, 9>>

PageCount == 200
StartCap == 1000

\* the mutation of EndOfList that takes a page one entry short of the request for a full one
EndOfListOffByOne(n, count) == n < count - 1

\* len(stat_groups) < count
EndOfList(n, count) == n < count

\* start > 1000
CapReached(start) == start > StartCap

\* a statGroups entry; its members list holds dicts or, when the payload is malformed, a
\* JSON value that is no dict
StatGroup(members) == [members |-> members]
GroupMember(name, alias) == [isdict |-> TRUE, name |-> name, alias |-> alias]
NoDict == [isdict |-> FALSE, name |-> {}, alias |-> {}]

PlayerA == StatGroup(<<GroupMember({SteamPrefix \o SteamIdA}, {AliasAnn})>>)
PlayerB == StatGroup(<<GroupMember({SteamPrefix \o SteamIdB}, {})>>)
BrokenGroup == StatGroup(<<NoDict>>)
ShortIdGroup == StatGroup(<<GroupMember({SteamPrefix \o ShortId}, {AliasBob})>>)

\* the explicit head of a page; the rest of a page, up to its length n, are statGroups
\* entries without members, which the loop skips.  Only the first MaxPlayerPages pages of a
\* leaderboard have a head.
EntryLists ==
    { <<>>, <<PlayerA>>, <<PlayerB, PlayerA>>, <<BrokenGroup, PlayerA>>, <<ShortIdGroup, PlayerB>> }

PageLens == {PageCount - 1, PageCount}

CountPlayers(entries) == Cardinality({k \in 1..Len(entries) : entries[k] \in {PlayerA, PlayerB}})
CountBroken(entries) == Cardinality({k \in 1..Len(entries) : entries[k] = BrokenGroup})

\* what fetch_leaderboard_data can answer: {} after a failed fetch (or a document without
\* statGroups), a JSON value without .get, or a page of n statGroups
PageAnswers ==
    { [kind |-> "empty", n |-> 0, entries |-> <<>>], [kind |-> "nondict", n |-> 0, entries |-> <<>>] }
    \cup { [kind |-> "page", n |-> n, entries |-> e] : n \in PageLens, e \in EntryLists }

ScanMatch(id, ctime, complete) ==
    [id |-> {id}, matchtype_id |-> 1, mapname |-> {"Blood River"},
     startgametime |-> {100}, completiontime |-> ctime,
     matchhistorymember |-> <<FirstMember(1), IF complete THEN SecondMember(2) ELSE Member({2}, {}, {1480}, {1464})>>,
     matchhistoryreportresults |-> ResultList(1, {1}, 2, {0})]

History(matches) == [kind |-> "data", profiles |-> PlainProfiles, matchHistoryStats |-> matches]

\* what fetch_match_history can answer
HistoryAnswers ==
    { [kind |-> "empty", profiles |-> <<>>, matchHistoryStats |-> <<>>],
      [kind |-> "nondict", profiles |-> <<>>, matchHistoryStats |-> <<>>],
      History(<<ScanMatch(1, {160}, TRUE)>>),
      History(<<ScanMatch(2, {200}, FALSE), ScanMatch(1, {160}, TRUE)>>),
      History(<<ScanMatch(1, {160}, TRUE), ScanMatch(2, {}, TRUE)>>),
      [kind |-> "data", profiles |-> <<Profile({}, {SteamPrefix \o SteamIdA}, {AliasAnn})>>,
       matchHistoryStats |-> <<ScanMatch(1, {160}, TRUE)>>],
      [kind |-> "data", profiles |-> PlainProfiles \o <<Profile({5}, {Null}, {})>>,
       matchHistoryStats |-> <<ScanMatch(1, {160}, TRUE)>>] }

CountError(sc) == [sc EXCEPT !.results.errors = @ + 1]

\* the body of `for stat_group in stat_groups` from entry i on, up to the next await: the
\* await of extract_elos for a listed player, or the progress report after the last entry
RECURSIVE AdvanceLoop(_, _, _)
AdvanceLoop(sc, pa, i) ==
    IF i > Len(sc.page.entries) THEN [scan |-> [sc EXCEPT !.pc = "progress_page", !.i = i], pa |-> pa]
    ELSE LET members == sc.page.entries[i].members
         IN IF members = <<>> THEN AdvanceLoop(sc, pa, i + 1)
            ELSE IF ~members[1].isdict THEN AdvanceLoop(CountError(sc), pa, i + 1)
            ELSE LET member_name == NameOf(members[1])
                     steam_id == RemoveAll(member_name, SteamPrefix)
                 IN IF ~StartsWith(member_name, SteamPrefix) THEN AdvanceLoop(sc, pa, i + 1)
                    ELSE IF ~validate_steamid(steam_id) THEN AdvanceLoop(sc, pa, i + 1)
                    ELSE [scan |-> [sc EXCEPT !.pc = "history", !.i = i, !.steam_id = steam_id,
                                       !.results.new_players_found =
                                            IF steam_id \notin DOMAIN pa THEN @ + 1 ELSE @,
                                       !.pre_match_count = get_stored_match_count(stored_matches)],
                          pa |-> DictPut(pa, steam_id, AliasOf(members[1]))]

ScanFrame == UNCHANGED <<conn, stored_matches, processed_match_ids, player_aliases, match_file, alias_file, last>>

\* the call of bulk_scan_for_matches, up to its first await update_progress
StartScan ==
    /\ last = Idle
    /\ scan.pc = "idle"
    /\ scan' = [ScanIdle EXCEPT !.pc = "progress_start"]
    /\ ScanFrame

\* the except clause of the outer try: await update_progress("Critical error")
Critical(sc) == [sc EXCEPT !.pc = "progress_critical", !.critical = TRUE]

\* the head of the loop over known_leaderboards: await update_progress("Scanning ...")
EnterLeaderboard(sc, lb_index) == [sc EXCEPT !.pc = "progress_lb", !.lb_index = lb_index]

\* the first update_progress returns or raises
AfterStartProgress ==
    /\ last = Idle
    /\ scan.pc = "progress_start"
    /\ \/ scan' = EnterLeaderboard(scan, 1)
       \/ /\ scan.faults < MaxFailures
          /\ scan' = Critical([scan EXCEPT !.faults = @ + 1])
    /\ ScanFrame

\* update_progress("Scanning <leaderboard>") returns or raises; on return the pagination of
\* the leaderboard starts with the first await fetch_leaderboard_data
AfterLeaderboardProgress ==
    /\ last = Idle
    /\ scan.pc = "progress_lb"
    /\ \/ scan' = [scan EXCEPT !.pc = "fetch_page", !.start = 1, !.lb_players_processed = 0,
                               !.results.leaderboard_results =
                                    DictPut(@, FACTIONS[known_leaderboards[scan.lb_index]], 0),
                               !.fetches = 1, !.short_seen = FALSE,
                               !.visited = @ \cup {known_leaderboards[scan.lb_index]}]
       \/ /\ scan.faults < MaxFailures
          /\ scan' = Critical([scan EXCEPT !.faults = @ + 1])
    /\ ScanFrame

\* after the while loop: results['leaderboard_results'][faction_name] = lb_players_processed,
\* then await asyncio.sleep(0.1).  The locals of the loops, which are assigned again before
\* they are read again, are reset.
LeaveLeaderboard(sc) ==
    [sc EXCEPT !.pc = "sleep_lb", !.page = NoPage, !.i = 0, !.steam_id = <<>>,
               !.pre_match_count = 0, !.lb_players_processed = 0,
               !.results.leaderboard_results =
                    DictPut(@, FACTIONS[known_leaderboards[sc.lb_index]], sc.lb_players_processed)]

\* fetch_leaderboard_data answers
PageFetched ==
    /\ last = Idle
    /\ scan.pc = "fetch_page"
    /\ \E answer \in PageAnswers :
         /\ scan.fetches > MaxPlayerPages => answer.entries = <<>>
         /\ scan.players + CountPlayers(answer.entries) <= MaxRealPlayers
         /\ scan.faults + CountBroken(answer.entries) + (IF answer.kind = "nondict" THEN 1 ELSE 0) <= MaxFailures
         /\ LET sc == [scan EXCEPT !.page = answer,
                                   !.players = @ + CountPlayers(answer.entries),
                                   !.faults = @ + CountBroken(answer.entries)
                                                + (IF answer.kind = "nondict" THEN 1 ELSE 0),
                                   !.short_seen = (answer.n < 200)]
            IN IF answer.kind = "nondict"
               THEN /\ scan' = LeaveLeaderboard(CountError(sc))
                    /\ UNCHANGED player_aliases
               ELSE IF answer.kind = "empty" \/ answer.n = 0
               THEN /\ scan' = LeaveLeaderboard(sc)
                    /\ UNCHANGED player_aliases
               ELSE LET r == AdvanceLoop(sc, player_aliases, 1)
                    IN /\ scan' = r.scan
                       /\ player_aliases' = r.pa
    /\ UNCHANGED <<conn, stored_matches, processed_match_ids, match_file, alias_file, last>>

\* the mutation of the scan that calls extract_elos without batch mode
ScanBatchModeOff == FALSE

\* await extract_elos(steam_id, batch_mode=True)
ScanBatchMode == TRUE

\* fetch_match_history answers inside extract_elos(steam_id, batch_mode=True); the rest of
\* extract_elos and the bookkeeping of the scan run up to await asyncio.sleep(0.05)
HistoryFetched ==
    /\ last = Idle
    /\ scan.pc = "history"
    /\ \E response \in HistoryAnswers :
         \E r \in {extract_elos(Mem, scan.steam_id, response, ScanBatchMode)} :
            /\ r.raised => scan.faults < MaxFailures
            /\ stored_matches' = r.sm
            /\ processed_match_ids' = r.pm
            /\ player_aliases' = r.pa
            /\ match_file' = IF r.save_matches THEN MatchDocument(r.sm, r.pm) ELSE match_file
            /\ alias_file' = IF r.save_aliases THEN AliasDocument(r.pa) ELSE alias_file
            /\ \E sc \in {[scan EXCEPT !.inserted = @ + r.matches_stored,
                                       !.match_saves = @ + (IF r.save_matches THEN 1 ELSE 0),
                                       !.alias_saves = @ + (IF r.save_aliases THEN 1 ELSE 0)]} :
                 scan' = IF r.raised
                         THEN [CountError(sc) EXCEPT !.pc = "sleep_player", !.faults = @ + 1]
                         ELSE [sc EXCEPT !.pc = "sleep_player",
                                         !.results.total_matches_added =
                                              @ + (get_stored_match_count(r.sm) - scan.pre_match_count),
                                         !.results.total_players_processed = @ + 1,
                                         !.lb_players_processed = @ + 1]
            /\ last' = [op |-> "extract_elos", steam_id |-> scan.steam_id, response |-> response,
                        raised |-> r.raised, evaluated |-> r.evaluated,
                        errors_before |-> scan.results.errors]
    /\ UNCHANGED conn

\* asyncio.sleep(0.05) is over: the loop goes on with the next statGroups entry
PlayerSleepDone ==
    /\ last = Idle
    /\ scan.pc = "sleep_player"
    /\ LET r == AdvanceLoop(scan, player_aliases, scan.i + 1)
       IN /\ scan' = r.scan
          /\ player_aliases' = r.pa
    /\ UNCHANGED <<conn, stored_matches, processed_match_ids, match_file, alias_file, last>>

\* update_progress("Processed n players") returns, and the page length and the cap decide
\* whether another page is fetched; or it raises into the except clause of the while loop
AfterPageProgress ==
    /\ last = Idle
    /\ scan.pc = "progress_page"
    /\ \/ scan' = IF EndOfList(scan.page.n, PageCount) THEN LeaveLeaderboard(scan)
                  ELSE IF CapReached(scan.start + PageCount)
                       THEN LeaveLeaderboard([scan EXCEPT !.start = @ + PageCount])
                  ELSE [scan EXCEPT !.pc = "fetch_page", !.start = @ + PageCount, !.fetches = @ + 1]
       \/ /\ scan.faults < MaxFailures
          /\ scan' = LeaveLeaderboard(CountError([scan EXCEPT !.faults = @ + 1]))
    /\ ScanFrame

\* asyncio.sleep(0.1) and gc.collect() are over: the next leaderboard, or after the last one
\* await update_progress("Match scan complete")
LeaderboardSleepDone ==
    /\ last = Idle
    /\ scan.pc = "sleep_lb"
    /\ scan' = IF scan.lb_index < Len(known_leaderboards)
               THEN EnterLeaderboard(scan, scan.lb_index + 1)
               ELSE [scan EXCEPT !.pc = "progress_done"]
    /\ ScanFrame

\* update_progress("Match scan complete") returns: save_match_data_to_file() and return
\* results; or it raises into the outer except clause
AfterDoneProgress ==
    /\ last = Idle
    /\ scan.pc = "progress_done"
    /\ \/ /\ scan' = [scan EXCEPT !.pc = "returned", !.match_saves = @ + 1]
          /\ match_file' = MatchDocument(stored_matches, processed_match_ids)
       \/ /\ scan.faults < MaxFailures
          /\ scan' = Critical([scan EXCEPT !.faults = @ + 1])
          /\ UNCHANGED match_file
    /\ UNCHANGED <<conn, stored_matches, processed_match_ids, player_aliases, alias_file, last>>

\* update_progress("Critical error") returns: errors += 1 and return results; or it raises
\* inside the except clause and the exception leaves bulk_scan_for_matches
AfterCriticalProgress ==
    /\ last = Idle
    /\ scan.pc = "progress_critical"
    /\ \/ scan' = [CountError(scan) EXCEPT !.pc = "returned"]
       \/ /\ scan.faults < MaxFailures
          /\ scan' = [scan EXCEPT !.pc = "raised", !.faults = @ + 1]
    /\ ScanFrame

ReturnScan ==
    /\ last # Idle
    /\ last' = Idle
    /\ UNCHANGED <<conn, stored_matches, processed_match_ids, player_aliases, match_file, alias_file, scan>>

NextScan ==
    \/ StartScan
    \/ AfterStartProgress
    \/ AfterLeaderboardProgress
    \/ PageFetched
    \/ HistoryFetched
    \/ PlayerSleepDone
    \/ AfterPageProgress
    \/ LeaderboardSleepDone
    \/ AfterDoneProgress
    \/ AfterCriticalProgress
    \/ ReturnScan

SpecScan == Init /\ [][NextScan]_vars

----------------------------------------------------------------------------
(* Properties of the match store and of store_match_from_history *)

StoreCalled == last.op = "store_match_from_history"

\* the key str(match['id']) of the record handed to the last call
LastMatchId == StrOfNat(Val(last.match.id))

\* a participant is resolvable when the profile list leads from its profile_id to a name
\* /steam/<id> whose <id> is a valid platform ID
Resolvable(member, profiles) ==
    /\ Present(member.profile_id)
    /\ \A i \in 1..Len(profiles) : Present(profiles[i].profile_id)
    /\ LET hit == LookupProfile(profiles, 1, Val(member.profile_id))
       IN hit.kind = "found" /\ validate_steamid(hit.steam_id)

ResolvedId(member, profiles) == LookupProfile(profiles, 1, Val(member.profile_id)).steam_id

\* the result code reported for a participant indicates a win
ReportsWin(match, member) ==
    \E i \in 1..Len(match.matchhistoryreportresults) :
        /\ match.matchhistoryreportresults[i].profile_id = member.profile_id
        /\ match.matchhistoryreportresults[i].resulttype = {1}
        /\ \A j \in (i + 1)..Len(match.matchhistoryreportresults) :
              match.matchhistoryreportresults[j].profile_id # member.profile_id

ReportsLoss(match, member) ==
    \E i \in 1..Len(match.matchhistoryreportresults) :
        /\ match.matchhistoryreportresults[i].profile_id = member.profile_id
        /\ match.matchhistoryreportresults[i].resulttype = {0}
        /\ \A j \in (i + 1)..Len(match.matchhistoryreportresults) :
              match.matchhistoryreportresults[j].profile_id # member.profile_id

\* the last call was handed a ranked 1v1 record with a new ID and two resolvable participants
NewRankedResolvable ==
    /\ StoreCalled
    /\ Present(last.match.id)
    /\ LastMatchId \notin last.pre.pm
    /\ LastMatchId \notin Keys(last.pre.sm)
    /\ last.match.matchtype_id = 1
    /\ Len(last.match.matchhistorymember) = 2
    /\ \A i \in 1..2 : Resolvable(last.match.matchhistorymember[i], last.profiles)

\* no key that store_match_from_history subscripts is absent from the record
RecordComplete(match) ==
    /\ \A i \in 1..Len(match.matchhistorymember) :
          /\ Present(match.matchhistorymember[i].race_id)
          /\ Present(match.matchhistorymember[i].oldrating)
          /\ Present(match.matchhistorymember[i].newrating)
    /\ ResultsWellFormed(match.matchhistoryreportresults)

WinCount ==
    Cardinality({i \in 1..2 : ReportsWin(last.match, last.match.matchhistorymember[i])})

StoredRecord(sm, match_id) == sm[CHOOSE i \in 1..Len(sm) : sm[i].match_id = match_id]

\* C1: in every reachable state the Processed-ID Set equals the key set of the Match
\* collection
C1_Lockstep == processed_match_ids = Keys(stored_matches)

\* C2: a call of store_match_from_history on a record whose match ID is already a key of the
\* Match collection returns not-inserted and leaves the collection (so count() and the stored
\* record) and the Processed-ID Set unchanged
C2_KnownIdIsNoOp ==
    (StoreCalled /\ Present(last.match.id) /\ LastMatchId \in Keys(last.pre.sm))
        => /\ ~last.inserted
           /\ stored_matches = last.pre.sm
           /\ processed_match_ids = last.pre.pm

\* C3: for every Match in the store exactly one of the two participants' platform IDs equals
\* the recorded winner's platform ID
C3_ExactlyOneWinner ==
    \A i \in 1..Len(stored_matches) :
        (stored_matches[i].player1_steamid = stored_matches[i].winner_steamid)
            # (stored_matches[i].player2_steamid = stored_matches[i].winner_steamid)

\* C4: a new ranked 1v1 record with two resolvable participants is rejected, count unchanged,
\* when zero or two participants report a win, and is accepted only when exactly one does
C4_DeterminateWinner ==
    NewRankedResolvable =>
        /\ (WinCount # 1 => ~last.inserted /\ Len(stored_matches) = Len(last.pre.sm))
        /\ (last.inserted => WinCount = 1)

\* C5: a rejected normalization, whatever the reason, leaves the Match collection, the
\* Processed-ID Set and the Alias Directory as they were before the call
C5_RejectionHasNoEffect ==
    (StoreCalled /\ ~last.inserted)
        => /\ stored_matches = last.pre.sm
           /\ processed_match_ids = last.pre.pm
           /\ player_aliases = last.pre.pa

\* a record with two resolvable players and no winner was rejected while the directory did not
\* know the first player's alias
C5_Witness ==
    /\ NewRankedResolvable
    /\ RecordComplete(last.match)
    /\ last.reason = "nowinner"
    /\ ResolvedId(last.match.matchhistorymember[1], last.profiles) \notin DOMAIN last.pre.pa
    /\ LookupProfile(last.profiles, 1, 1).alias = AliasAnn

----------------------------------------------------------------------------
(* Properties of bulk_scan_for_matches *)

AllLeaderboards == {known_leaderboards[k] : k \in 1..Len(known_leaderboards)}

\* C7: whatever fails during a bulk scan, the scan visits every one of the 9 leaderboards and
\* returns its summary; no failure leaves bulk_scan_for_matches as an exception
C7_ScanNeverAborts ==
    /\ scan.pc # "raised"
    /\ scan.pc = "returned" => scan.visited = AllLeaderboards

\* C8: when a bulk scan has run to its end, the match snapshot and the alias snapshot have
\* each been written once and hold the final in-memory state
C8_BothSnapshotsWritten ==
    (scan.pc = "returned" /\ ~scan.critical)
        => /\ scan.match_saves = 1
           /\ match_file = MatchDocument(stored_matches, processed_match_ids)
           /\ scan.alias_saves = 1
           /\ alias_file = AliasDocument(player_aliases)

\* C9: no page of a leaderboard is fetched after a page that returned fewer than the 200
\* requested entries (or none), and at most 5 pages are fetched for one leaderboard
C9_PaginationStops ==
    /\ scan.fetches <= 5
    /\ ~(scan.pc = "fetch_page" /\ scan.short_seen)

\* the pagination of a leaderboard ended after five full pages
C9_Witness ==
    /\ scan.pc = "sleep_lb"
    /\ scan.fetches = 5
    /\ ~scan.short_seen

\* the ranked records of the answer that extract_elos handed to store_match_from_history
AllRankedEvaluated ==
    \A k \in 1..Len(last.response.matchHistoryStats) :
        last.response.matchHistoryStats[k].matchtype_id = 1
            => \E j \in 1..Len(last.evaluated) : last.evaluated[j] = last.response.matchHistoryStats[k]

\* C10: a failure while one player is processed adds one to the error count and the scan goes
\* on with the rest of the page; and whatever is wrong with one match of a player's history,
\* the player's other matches are still evaluated
C10_FailuresAreIsolated ==
    last.op = "extract_elos"
        => /\ last.raised => (scan.results.errors = last.errors_before + 1 /\ scan.pc = "sleep_player")
           /\ (last.response.kind = "data"
                 /\ FindPlayerProfile(last.response.profiles, 1, last.steam_id).kind = "found")
                => AllRankedEvaluated

----------------------------------------------------------------------------
(* Properties of loading the persisted match state *)

\* match_data.json is absent, does not parse, or holds a match entry that lacks a key
MatchFileMissingOrCorrupt ==
    \/ ~match_file.exists
    \/ ~match_file.parses
    \/ \E i \in 1..Len(match_file.stored_matches) : ~match_file.stored_matches[i].ok

\* C11: when a process has started and load_match_data_from_file has run on a missing or
\* corrupt file, the store is empty: no matches and no processed IDs (the load itself never
\* raises: every exception is caught inside it)
C11_CorruptLoadLeavesEmptyStore ==
    (last.op = "restart" /\ MatchFileMissingOrCorrupt)
        => /\ stored_matches = <<>>
           /\ processed_match_ids = {}

----------------------------------------------------------------------------
(* Statistics over the match store.  An optional argument (min_elo, max_elo) *)
(* is a set: {} for None.  A win rate, a float the code computes as          *)
(* (wins / total) * 100, is kept as the fraction num/den.  The results' text  *)
(* label 'elo_range' is not part of the modelled results.                    *)

Rate(num, den) == [num |-> num, den |-> den]

\* the initial 'winrate': 0.0
ZeroRate == Rate(0, 1)

\* (wins / total) * 100, for total # 0
Percent(wins, total) == Rate(wins * 100, total)

RateEq(a, b) == a.num * b.den = b.num * a.den

FactionNames == {FACTIONS[f] : f \in DOMAIN FACTIONS}

\* the mutation of InRange that tests max_elo on player1 only
InRangeFirstPlayerMax(match, min_elo, max_elo) ==
    LET player1_elo == match.player1_old_elo
        player2_elo == match.player2_old_elo
        p1min == IF Present(min_elo) THEN player1_elo >= Val(min_elo) ELSE TRUE
        p2min == IF Present(min_elo) THEN player2_elo >= Val(min_elo) ELSE TRUE
        p1max == IF Present(max_elo) THEN p1min /\ player1_elo <= Val(max_elo) ELSE p1min
    IN p1max /\ p2min

\* the mutation of InRange that compares the ratings with min_elo the wrong way round
InRangeMinFlipped(match, min_elo, max_elo) ==
    LET player1_elo == match.player1_old_elo
        player2_elo == match.player2_old_elo
        p1min == IF Present(min_elo) THEN player1_elo <= Val(min_elo) ELSE TRUE
        p2min == IF Present(min_elo) THEN player2_elo <= Val(min_elo) ELSE TRUE
        p1max == IF Present(max_elo) THEN p1min /\ player1_elo <= Val(max_elo) ELSE p1min
        p2max == IF Present(max_elo) THEN p2min /\ player2_elo <= Val(max_elo) ELSE p2min
    IN p1max /\ p2max

\* the body of the loop of filter_matches_by_elo_range: player1_in_range and player2_in_range
InRange(match, min_elo, max_elo) ==
    LET player1_elo == match.player1_old_elo
        player2_elo == match.player2_old_elo
        p1min == IF Present(min_elo) THEN player1_elo >= Val(min_elo) ELSE TRUE
        p2min == IF Present(min_elo) THEN player2_elo >= Val(min_elo) ELSE TRUE
        p1max == IF Present(max_elo) THEN p1min /\ player1_elo <= Val(max_elo) ELSE p1min
        p2max == IF Present(max_elo) THEN p2min /\ player2_elo <= Val(max_elo) ELSE p2min
    IN p1max /\ p2max

\* filter_matches_by_elo_range over stored_matches.values(), in insertion order
filter_matches_by_elo_range(sm, min_elo, max_elo) ==
    IF min_elo = {} /\ max_elo = {} THEN sm
    ELSE SelectSeq(sm, LAMBDA match : InRange(match, min_elo, max_elo))

\* the mutation of LoserRace that always takes the second slot for the loser
LoserRaceSecondSlot(match) == match.player2_race

\* match.player2_race if match.player1_race == winner_race else match.player1_race
LoserRace(match) ==
    IF match.player1_race = match.winner_race THEN match.player2_race ELSE match.player1_race

\* the loop of get_map_race_statistics over the filtered matches, from match i on
RECURSIVE MapTally(_, _, _, _)
MapTally(matches, i, map_name, map_stats) ==
    IF i > Len(matches) THEN map_stats
    ELSE IF matches[i].map_name # map_name THEN MapTally(matches, i + 1, map_name, map_stats)
    ELSE LET winner_race == matches[i].winner_race
             loser_race == LoserRace(matches[i])
             s1 == [map_stats EXCEPT !.total_matches = @ + 1]
             s2 == IF winner_race \in DOMAIN s1.race_stats
                   THEN [s1 EXCEPT !.race_stats[winner_race].wins = @ + 1,
                                   !.race_stats[winner_race].total_games = @ + 1]
                   ELSE s1
             s3 == IF loser_race \in DOMAIN s2.race_stats
                   THEN [s2 EXCEPT !.race_stats[loser_race].losses = @ + 1,
                                   !.race_stats[loser_race].total_games = @ + 1]
                   ELSE s2
         IN MapTally(matches, i + 1, map_name, s3)

get_map_race_statistics(sm, map_name, min_elo, max_elo) ==
    LET start == [map_name |-> map_name, total_matches |-> 0,
                  race_stats |-> [race \in FactionNames |->
                                    [wins |-> 0, losses |-> 0, total_games |-> 0, winrate |-> ZeroRate]]]
        tally == MapTally(filter_matches_by_elo_range(sm, min_elo, max_elo), 1, map_name, start)
    IN [tally EXCEPT !.race_stats =
            [race \in FactionNames |->
                LET stats == tally.race_stats[race]
                IN IF stats.total_games > 0
                   THEN [stats EXCEPT !.winrate = Percent(stats.wins, stats.total_games)]
                   ELSE stats]]

\* the loop of get_race_specific_matchups over the filtered matches, from match i on
RECURSIVE MatchupTally(_, _, _, _)
MatchupTally(matches, i, target_race, race_stats) ==
    IF i > Len(matches) THEN race_stats
    ELSE IF target_race \notin {matches[i].player1_race, matches[i].player2_race}
         THEN MatchupTally(matches, i + 1, target_race, race_stats)
    ELSE LET opponent_race == IF matches[i].player1_race = target_race
                              THEN matches[i].player2_race ELSE matches[i].player1_race
             target_won == matches[i].winner_race = target_race
             s1 == [race_stats EXCEPT !.total_matches = @ + 1]
             s2 == IF opponent_race \notin DOMAIN s1.matchups THEN s1
                   ELSE IF target_won
                        THEN [s1 EXCEPT !.matchups[opponent_race].total = @ + 1,
                                        !.total_wins = @ + 1,
                                        !.matchups[opponent_race].wins = @ + 1]
                        ELSE [s1 EXCEPT !.matchups[opponent_race].total = @ + 1,
                                        !.total_losses = @ + 1,
                                        !.matchups[opponent_race].losses = @ + 1]
         IN MatchupTally(matches, i + 1, target_race, s2)

get_race_specific_matchups(sm, target_race, min_elo, max_elo) ==
    LET start == [race |-> target_race, total_matches |-> 0, total_wins |-> 0, total_losses |-> 0,
                  overall_winrate |-> ZeroRate,
                  matchups |-> [race \in FactionNames \ {target_race} |->
                                  [opponent |-> race, wins |-> 0, losses |-> 0, total |-> 0,
                                   winrate |-> ZeroRate]]]
        tally == MatchupTally(filter_matches_by_elo_range(sm, min_elo, max_elo), 1, target_race, start)
        overall == IF tally.total_matches > 0
                   THEN [tally EXCEPT !.overall_winrate = Percent(tally.total_wins, tally.total_matches)]
                   ELSE tally
    IN [overall EXCEPT !.matchups =
            [race \in DOMAIN tally.matchups |->
                LET matchup == tally.matchups[race]
                IN IF matchup.total > 0
                   THEN [matchup EXCEPT !.winrate = Percent(matchup.wins, matchup.total)]
                   ELSE matchup]]

\* the race names that occur in stored matches, in the order of Python's string comparison
NamesInOrder ==
    <<"Chaos", "Dark Eldar", "Eldar", "Imperial Guard", "Necrons", "Orks", "Race 9",
      "Sisters of Battle", "Space Marines", "Tau Empire">>

StrLess(a, b) ==
    \E i, j \in 1..Len(NamesInOrder) : NamesInOrder[i] = a /\ NamesInOrder[j] = b /\ i < j

\* f"{race1} vs {race2}"
MatchupKey(race1, race2) == race1 \o " vs " \o race2

\* the key of a match in get_all_race_matchups: the two race names joined as they are when
\* equal, else in sorted order
SortedKey(race1, race2) ==
    IF race1 = race2 THEN MatchupKey(race1, race2)
    ELSE IF StrLess(race2, race1) THEN MatchupKey(race2, race1)
    ELSE MatchupKey(race1, race2)

\* the mutation of CreditWin that credits the win by participant slot
CreditWinBySlot(stats, match) ==
    IF match.winner_steamid = match.player1_steamid THEN [stats EXCEPT !.race1_wins = @ + 1]
    ELSE [stats EXCEPT !.race2_wins = @ + 1]

\* the winner's race is credited to the side of the entry that names it
CreditWin(stats, match) ==
    LET race1 == match.player1_race
        race2 == match.player2_race
        winner_race == match.winner_race
    IN IF winner_race = race1
       THEN IF race1 = stats.race1 THEN [stats EXCEPT !.race1_wins = @ + 1]
            ELSE [stats EXCEPT !.race2_wins = @ + 1]
       ELSE IF winner_race = race2
       THEN IF race2 = stats.race1 THEN [stats EXCEPT !.race1_wins = @ + 1]
            ELSE [stats EXCEPT !.race2_wins = @ + 1]
       ELSE stats

\* the loop of get_all_race_matchups over the filtered matches, from match i on
RECURSIVE MatrixTally(_, _, _)
MatrixTally(matches, i, matchup_stats) ==
    IF i > Len(matches) THEN matchup_stats
    ELSE LET key == SortedKey(matches[i].player1_race, matches[i].player2_race)
         IN IF key \notin DOMAIN matchup_stats THEN MatrixTally(matches, i + 1, matchup_stats)
            ELSE MatrixTally(matches, i + 1,
                    [matchup_stats EXCEPT ![key] =
                        CreditWin([matchup_stats[key] EXCEPT !.total_matches = @ + 1], matches[i])])

\* the pairs (i, j), i <= j, of positions in list(FACTIONS.values())
FactionPairs == {p \in (DOMAIN FACTIONS) \X (DOMAIN FACTIONS) : p[1] <= p[2]}

PairOfKey(key) == CHOOSE p \in FactionPairs : MatchupKey(FACTIONS[p[1]], FACTIONS[p[2]]) = key

get_all_race_matchups(sm, min_elo, max_elo) ==
    LET keys == {MatchupKey(FACTIONS[p[1]], FACTIONS[p[2]]) : p \in FactionPairs}
        start == [key \in keys |->
                    [race1 |-> FACTIONS[PairOfKey(key)[1]], race2 |-> FACTIONS[PairOfKey(key)[2]],
                     race1_wins |-> 0, race2_wins |-> 0, total_matches |-> 0,
                     race1_winrate |-> ZeroRate, race2_winrate |-> ZeroRate]]
        tally == MatrixTally(filter_matches_by_elo_range(sm, min_elo, max_elo), 1, start)
    IN [key \in keys |->
          LET stats == tally[key]
          IN IF stats.total_matches > 0
             THEN [stats EXCEPT !.race1_winrate = Percent(stats.race1_wins, stats.total_matches),
                                !.race2_winrate = Percent(stats.race2_wins, stats.total_matches)]
             ELSE stats]

\* the mutation of ActualLosses that lets the difference go below zero
ActualLossesNoFloor(losses, drops) == losses - drops

\* max(losses - drops, 0)
ActualLosses(losses, drops) == IF losses - drops > 0 THEN losses - drops ELSE 0

\* stat.get(key, default) on an entry of leaderboardStats
GetOr(field, default) == IF Present(field) THEN Val(field) ELSE default

\* the loop of process_leaderboard_stats, from entry i on
RECURSIVE process_leaderboard_stats_from(_, _, _)
process_leaderboard_stats_from(leaderboard_stats, i, faction_data) ==
    IF i > Len(leaderboard_stats) THEN faction_data
    ELSE LET stat == leaderboard_stats[i]
         IN IF ~(Present(stat.leaderboard_id) /\ Val(stat.leaderboard_id) \in DOMAIN FACTIONS)
            THEN process_leaderboard_stats_from(leaderboard_stats, i + 1, faction_data)
            ELSE LET wins == GetOr(stat.wins, 0)
                     losses == GetOr(stat.losses, 0)
                     drops == GetOr(stat.drops, 0)
                     rank == GetOr(stat.rank, -1)
                     rating == GetOr(stat.rating, 0)
                     actual_losses == ActualLosses(losses, drops)
                     total_games == wins + actual_losses
                     winrate == IF total_games > 0 THEN Percent(wins, total_games) ELSE ZeroRate
                 IN process_leaderboard_stats_from(leaderboard_stats, i + 1,
                        DictPut(faction_data, Val(stat.leaderboard_id),
                                [faction_name |-> FACTIONS[Val(stat.leaderboard_id)],
                                 wins |-> wins, losses |-> actual_losses, total_games |-> total_games,
                                 winrate |-> winrate,
                                 rank |-> IF rank > 0 THEN {rank} ELSE {},
                                 rating |-> rating]))

process_leaderboard_stats(leaderboard_stats) ==
    process_leaderboard_stats_from(leaderboard_stats, 1, [x \in {} |-> 0])

\* the loop of calculate_winrate_stats with the default lb_ids = range(1, 10), from entry i on
RECURSIVE WinrateTally(_, _, _)
WinrateTally(stats, i, acc) ==
    IF i > Len(stats) THEN acc
    ELSE IF Present(stats[i].leaderboard_id) /\ Val(stats[i].leaderboard_id) \in 1..9
         THEN WinrateTally(stats, i + 1,
                  [wins |-> acc.wins + GetOr(stats[i].wins, 0),
                   losses |-> acc.losses + (LET d == GetOr(stats[i].losses, 0) - GetOr(stats[i].drops, 0)
                                            IN IF d > 0 THEN d ELSE 0),
                   stats |-> Append(acc.stats, stats[i])])
    ELSE WinrateTally(stats, i + 1, acc)

calculate_winrate_stats(stats) ==
    LET acc == WinrateTally(stats, 1, [wins |-> 0, losses |-> 0, stats |-> <<>>])
        total_games == acc.wins + acc.losses
    IN [wins |-> acc.wins, losses |-> acc.losses, games |-> total_games,
        winrate |-> IF total_games > 0 THEN Percent(acc.wins, total_games) ELSE ZeroRate,
        stats |-> acc.stats]

----------------------------------------------------------------------------
(* Statistics queries over a store filled by the ingestion path *)

SteamIdC == <<"7", "6", "5", "6", "1", "1", "9", "8", "0", "0", "0", "0", "0", "0", "0", "0", "2">>

\* the profiles array with a third player C as profile 4
StatsProfiles == PlainProfiles \o <<Profile({4}, {SteamPrefix \o SteamIdC}, {<<"C", "y">>})>>

\* a complete ranked 1v1 record between the player A (first slot) and the player of profile
\* second (second slot), completed at time done
StatsMatch(id, map, done, second, race1, elo1, race2, elo2, first_wins) ==
    [id |-> {id}, matchtype_id |-> 1, mapname |-> {map},
     startgametime |-> {100}, completiontime |-> {done},
     matchhistorymember |-> <<Member({1}, {race1}, {elo1}, {elo1 + 16}), Member({second}, {race2}, {elo2}, {elo2 - 16})>>,
     matchhistoryreportresults |->
        IF first_wins THEN ResultList(1, {1}, second, {0}) ELSE ResultList(1, {0}, second, {1})]

\* the games that are played under each match ID: either race in either slot, a mirror game,
\* a race code outside RACE_MAP, two maps, ratings between 1400 and 1600, a game against
\* the player C, different completion times
StatsMatches ==
    UNION { { StatsMatch(id, "Blood River", 160, 2, 0, 1500, 2, 1480, TRUE),
              StatsMatch(id, "Blood River", 140, 2, 2, 1480, 0, 1500, FALSE),
              StatsMatch(id, "Blood River", 260, 2, 0, 1500, 0, 1600, FALSE),
              StatsMatch(id, "Fallen City", 160, 2, 2, 1600, 0, 1400, TRUE),
              StatsMatch(id, "Blood River", 180, 4, 0, 1500, 9, 1500, TRUE),
              StatsMatch(id, "Fallen City", 160, 2, 8, 1600, 2, 1600, TRUE) } : id \in MatchIds }

\* the values of min_elo and of max_elo: None or a rating
EloBounds == {{}, {1450}, {1500}, {1550}}

\* the ranges the aggregate views are asked for
StatRanges == {<<{}, {}>>, <<{1450}, {}>>, <<{}, {1550}>>, <<{1450}, {1550}>>}

MapNames == {"Blood River", "Fallen City", "Quatra"}

TargetRaces == {"Chaos", "Eldar", "Tau Empire"}

Stat(lb, wins, losses, drops, rank) ==
    [leaderboard_id |-> lb, wins |-> wins, losses |-> losses, drops |-> drops, rank |-> rank,
     rating |-> {1500}]

\* entries of a player's leaderboardStats: more drops than losses, a leaderboard that is no
\* faction, an entry without counts
StatEntries ==
    { Stat({1}, {2}, {3}, {1}, {4}),
      Stat({1}, {0}, {1}, {2}, {0}),
      Stat({2}, {2}, {0}, {1}, {1}),
      Stat({10}, {5}, {5}, {0}, {2}),
      Stat({2}, {}, {}, {}, {}) }

\* a player's leaderboardStats: no entry, one entry, or an entry followed by the one of
\* leaderboard 2 that holds a drop and no loss
StatLists ==
    {<<>>} \cup {<<a>> : a \in StatEntries} \cup {<<a, Stat({2}, {2}, {0}, {1}, {1})>> : a \in StatEntries}

QueryFrame == UNCHANGED <<conn, stored_matches, processed_match_ids, player_aliases, match_file, alias_file, scan>>

IngestStats == \E match \in StatsMatches : StoreMatch(match, StatsProfiles, TRUE)

FilterQuery ==
    /\ last = Idle
    /\ \E min_elo \in EloBounds, max_elo \in EloBounds :
         \E r \in {filter_matches_by_elo_range(stored_matches, min_elo, max_elo)} :
            last' = [op |-> "filter_matches_by_elo_range", min_elo |-> min_elo, max_elo |-> max_elo,
                     result |-> r]
    /\ QueryFrame

MapStatsQuery ==
    /\ last = Idle
    /\ \E map_name \in MapNames, range \in StatRanges :
         \E r \in {get_map_race_statistics(stored_matches, map_name, range[1], range[2])} :
            last' = [op |-> "get_map_race_statistics", map_name |-> map_name,
                     min_elo |-> range[1], max_elo |-> range[2], result |-> r]
    /\ QueryFrame

RaceMatchupsQuery ==
    /\ last = Idle
    /\ \E target_race \in TargetRaces, range \in StatRanges :
         \E r \in {get_race_specific_matchups(stored_matches, target_race, range[1], range[2])} :
            last' = [op |-> "get_race_specific_matchups", target_race |-> target_race,
                     min_elo |-> range[1], max_elo |-> range[2], result |-> r]
    /\ QueryFrame

AllMatchupsQuery ==
    /\ last = Idle
    /\ \E range \in StatRanges :
         \E r \in {get_all_race_matchups(stored_matches, range[1], range[2])} :
            last' = [op |-> "get_all_race_matchups", min_elo |-> range[1], max_elo |-> range[2],
                     result |-> r]
    /\ QueryFrame

LeaderboardStatsQuery ==
    /\ last = Idle
    /\ \E leaderboard_stats \in StatLists :
         \E r \in {process_leaderboard_stats(leaderboard_stats)} :
            last' = [op |-> "process_leaderboard_stats", leaderboard_stats |-> leaderboard_stats,
                     result |-> r]
    /\ QueryFrame

WinrateStatsQuery ==
    /\ last = Idle
    /\ \E stats \in StatLists :
         \E r \in {calculate_winrate_stats(stats)} :
            last' = [op |-> "calculate_winrate_stats", stats |-> stats, result |-> r]
    /\ QueryFrame

\* x placed behind the records whose completion_time is not smaller
RECURSIVE InsertByCompletion(_, _)
InsertByCompletion(sorted, x) ==
    IF sorted = <<>> THEN <<x>>
    ELSE IF Head(sorted).completion_time >= x.completion_time
         THEN <<Head(sorted)>> \o InsertByCompletion(Tail(sorted), x)
         ELSE <<x>> \o sorted

\* list.sort(key=lambda m: m.completion_time, reverse=True): stable, descending
RECURSIVE SortByCompletion(_, _)
SortByCompletion(matches, i) ==
    IF i = 0 THEN <<>> ELSE InsertByCompletion(SortByCompletion(matches, i - 1), matches[i])

\* seq[:limit]: the first limit elements, and for a negative limit all but the last -limit
SliceTo(seq, limit) ==
    LET stop == IF limit >= 0 THEN limit ELSE Len(seq) + limit
    IN SubSeq(seq, 1, IF stop > Len(seq) THEN Len(seq) ELSE IF stop < 0 THEN 0 ELSE stop)

get_matches_by_player(sm, steam_id, limit) ==
    LET player_matches ==
            SelectSeq(sm, LAMBDA match : match.player1_steamid = steam_id
                                            \/ match.player2_steamid = steam_id)
    IN SliceTo(SortByCompletion(player_matches, Len(player_matches)), limit)

Limits == {-1, 0, 1, 10}

PlayerMatchesQuery ==
    /\ last = Idle
    /\ \E steam_id \in {SteamIdA, SteamIdC, ShortId}, limit \in Limits :
         \E r \in {get_matches_by_player(stored_matches, steam_id, limit)} :
            last' = [op |-> "get_matches_by_player", steam_id |-> steam_id, limit |-> limit,
                     result |-> r]
    /\ QueryFrame

NextStats ==
    \/ IngestStats
    \/ PlayerMatchesQuery
    \/ FilterQuery
    \/ MapStatsQuery
    \/ RaceMatchupsQuery
    \/ AllMatchupsQuery
    \/ LeaderboardStatsQuery
    \/ WinrateStatsQuery
    \/ Return

SpecStats == Init /\ [][NextStats]_vars

----------------------------------------------------------------------------
(* Properties of filter_matches_by_elo_range *)

Elems(seq) == {seq[i] : i \in 1..Len(seq)}

\* both participants' pre-match ratings are >= min_elo when it is given and <= max_elo when
\* it is given
BothWithin(match, min_elo, max_elo) ==
    /\ Present(min_elo) => (match.player1_old_elo >= Val(min_elo) /\ match.player2_old_elo >= Val(min_elo))
    /\ Present(max_elo) => (match.player1_old_elo <= Val(max_elo) /\ match.player2_old_elo <= Val(max_elo))

FilterCalled == last.op = "filter_matches_by_elo_range"

\* C12: filter_matches_by_elo_range(min, max) returns exactly the stored matches, each once,
\* in which both participants' pre-match ratings are >= min (when given) and <= max (when
\* given); with neither bound it returns every stored match
C12_FilterIsExact ==
    FilterCalled =>
        /\ Elems(last.result) = {m \in Elems(stored_matches) : BothWithin(m, last.min_elo, last.max_elo)}
        /\ Cardinality(Elems(last.result)) = Len(last.result)
        /\ (last.min_elo = {} /\ last.max_elo = {}) => last.result = stored_matches

\* a two-sided range kept one stored match and dropped another whose first participant is
\* within the range and whose second participant is rated above max
C12_Witness ==
    /\ FilterCalled
    /\ Present(last.min_elo) /\ Present(last.max_elo)
    /\ Len(last.result) = 1
    /\ \E m \in Elems(stored_matches) :
          /\ m.player1_old_elo >= Val(last.min_elo) /\ m.player1_old_elo <= Val(last.max_elo)
          /\ m.player2_old_elo > Val(last.max_elo)

\* the range [min1, max1] is contained in the range [min2, max2]; an absent bound is unbounded
RangeWithin(min1, max1, min2, max2) ==
    /\ Present(min2) => (Present(min1) /\ Val(min1) >= Val(min2))
    /\ Present(max2) => (Present(max1) /\ Val(max1) <= Val(max2))

\* C13: the result of filtering by a range is a subset of the result of filtering the same
\* store by any range that contains it
C13_FilterIsMonotonic ==
    FilterCalled =>
        \A min2 \in EloBounds, max2 \in EloBounds :
            RangeWithin(last.min_elo, last.max_elo, min2, max2)
                => Elems(last.result) \subseteq Elems(filter_matches_by_elo_range(stored_matches, min2, max2))

\* a non-empty result for a two-sided range that a strictly wider range strictly extends
C13_Witness ==
    /\ FilterCalled
    /\ Present(last.min_elo) /\ Present(last.max_elo)
    /\ last.result # <<>>
    /\ \E min2 \in EloBounds, max2 \in EloBounds :
          /\ RangeWithin(last.min_elo, last.max_elo, min2, max2)
          /\ Present(min2) /\ Val(min2) < Val(last.min_elo)
          /\ Elems(last.result) # Elems(filter_matches_by_elo_range(stored_matches, min2, max2))

----------------------------------------------------------------------------
(* Properties of the aggregate views *)

\* the stored matches within the ELO range of the last query
InRangeMatches == {m \in Elems(stored_matches) : BothWithin(m, last.min_elo, last.max_elo)}

RaceMatchupsCalled == last.op = "get_race_specific_matchups"

\* C14: in the per-race matchup table total_wins + total_losses equals total_matches and the
\* overall win rate is total_wins / (total_wins + total_losses) x 100, 0 when there are no
\* games, as the per-opponent win rates are
C14_OverallRateLikePerOpponent ==
    RaceMatchupsCalled =>
        LET r == last.result
            games == r.total_wins + r.total_losses
        IN /\ games = r.total_matches
           /\ RateEq(r.overall_winrate, IF games > 0 THEN Percent(r.total_wins, games) ELSE ZeroRate)
           /\ \A race \in DOMAIN r.matchups :
                 RateEq(r.matchups[race].winrate,
                        IF r.matchups[race].wins + r.matchups[race].losses > 0
                        THEN Percent(r.matchups[race].wins, r.matchups[race].wins + r.matchups[race].losses)
                        ELSE ZeroRate)

\* the in-range games the target race has played against a race
GamesAgainst(target_race, race) ==
    {m \in InRangeMatches : \/ (m.player1_race = target_race /\ m.player2_race = race)
                            \/ (m.player2_race = target_race /\ m.player1_race = race)}

\* C15: the table of get_race_specific_matchups(target) has an entry for each of the 9 races,
\* and the entry of every race the target has no games against holds zero counts
C15_TableHasAllNineRaces ==
    RaceMatchupsCalled =>
        /\ DOMAIN last.result.matchups = FactionNames
        /\ \A race \in FactionNames :
              GamesAgainst(last.target_race, race) = {}
                 => /\ race \in DOMAIN last.result.matchups
                    /\ last.result.matchups[race].wins = 0
                    /\ last.result.matchups[race].losses = 0
                    /\ last.result.matchups[race].total = 0

\* a stored match with its two participant slots exchanged: IDs, aliases, races and ratings
\* move together, the winner stays
SwapSlots(md) ==
    [md EXCEPT !.player1_steamid = md.player2_steamid, !.player2_steamid = md.player1_steamid,
               !.player1_alias = md.player2_alias, !.player2_alias = md.player1_alias,
               !.player1_race = md.player2_race, !.player2_race = md.player1_race,
               !.player1_old_elo = md.player2_old_elo, !.player2_old_elo = md.player1_old_elo,
               !.player1_new_elo = md.player2_new_elo, !.player2_new_elo = md.player1_new_elo]

\* the race of the participant whose platform ID is the winner's, and of the other one
WinnerSlotRace(m) == IF m.winner_steamid = m.player1_steamid THEN m.player1_race ELSE m.player2_race
LoserSlotRace(m) == IF m.winner_steamid = m.player1_steamid THEN m.player2_race ELSE m.player1_race

AllMatchupsCalled == last.op = "get_all_race_matchups"

\* C16: the global matchup matrix does not change when the two participant slots of a stored
\* match are swapped; the in-range matches between two different races A < B, whichever slot
\* holds which, are counted in the entry "A vs B", with the wins of A as race1_wins and the
\* wins of B as race2_wins
C16_MatrixIgnoresSlots ==
    AllMatchupsCalled =>
        /\ \A i \in 1..Len(stored_matches) :
              get_all_race_matchups([stored_matches EXCEPT ![i] = SwapSlots(@)],
                                    last.min_elo, last.max_elo) = last.result
        /\ \A a \in FactionNames, b \in FactionNames :
              StrLess(a, b) =>
                 LET games == {m \in InRangeMatches : {m.player1_race, m.player2_race} = {a, b}}
                     entry == last.result[MatchupKey(a, b)]
                 IN /\ MatchupKey(b, a) \notin DOMAIN last.result
                    /\ entry.total_matches = Cardinality(games)
                    /\ entry.race1_wins = Cardinality({m \in games : WinnerSlotRace(m) = a})
                    /\ entry.race2_wins = Cardinality({m \in games : WinnerSlotRace(m) = b})

\* the matrix was computed from a store that holds Chaos against Eldar games with Eldar in the
\* first slot and with Eldar in the second slot, each won from the second slot
C16_Witness ==
    /\ AllMatchupsCalled
    /\ last.result["Chaos vs Eldar"].total_matches = 2
    /\ \E m \in InRangeMatches :
          m.player1_race = "Eldar" /\ m.player2_race = "Chaos" /\ m.winner_steamid = m.player2_steamid
    /\ \E m \in InRangeMatches :
          m.player1_race = "Chaos" /\ m.player2_race = "Eldar" /\ m.winner_steamid = m.player1_steamid

MapStatsCalled == last.op = "get_map_race_statistics"

\* the in-range stored matches on the map of the last query
OnMapInRange == {m \in InRangeMatches : m.map_name = last.map_name}

\* C17: for a map and an ELO range, total_matches is the number of in-range stored matches on
\* the map, and each race's wins (losses) is the number of them won (lost) by a participant of
\* that race
C17_MapTalliesAreExact ==
    MapStatsCalled =>
        /\ last.result.total_matches = Cardinality(OnMapInRange)
        /\ DOMAIN last.result.race_stats = FactionNames
        /\ \A race \in FactionNames :
              /\ last.result.race_stats[race].wins
                    = Cardinality({m \in OnMapInRange : WinnerSlotRace(m) = race})
              /\ last.result.race_stats[race].losses
                    = Cardinality({m \in OnMapInRange : LoserSlotRace(m) = race})

\* the statistics of a map were computed for a bounded range over a store with a game on the
\* map that the second slot won against another race, and a game that the range excludes
C17_Witness ==
    /\ MapStatsCalled
    /\ Present(last.max_elo)
    /\ \E m \in OnMapInRange :
          m.winner_steamid = m.player2_steamid /\ m.player1_race # m.player2_race
    /\ \E m \in Elems(stored_matches) : m \notin InRangeMatches

\* a win rate is a percentage, and 0 when no games were counted
RateOk(rate, total) ==
    /\ rate.den > 0
    /\ rate.num >= 0
    /\ rate.num <= 100 * rate.den
    /\ total = 0 => rate.num = 0

\* C18: every win rate in the results of get_map_race_statistics, get_race_specific_matchups,
\* get_all_race_matchups, process_leaderboard_stats and calculate_winrate_stats lies in
\* [0, 100] and is 0 when the corresponding number of games is 0
C18_WinRatesArePercentages ==
    /\ MapStatsCalled =>
          \A race \in DOMAIN last.result.race_stats :
              RateOk(last.result.race_stats[race].winrate, last.result.race_stats[race].total_games)
    /\ RaceMatchupsCalled =>
          /\ RateOk(last.result.overall_winrate, last.result.total_matches)
          /\ \A race \in DOMAIN last.result.matchups :
                RateOk(last.result.matchups[race].winrate, last.result.matchups[race].total)
    /\ AllMatchupsCalled =>
          \A key \in DOMAIN last.result :
              /\ RateOk(last.result[key].race1_winrate, last.result[key].total_matches)
              /\ RateOk(last.result[key].race2_winrate, last.result[key].total_matches)
    /\ last.op = "process_leaderboard_stats" =>
          \A id \in DOMAIN last.result : RateOk(last.result[id].winrate, last.result[id].total_games)
    /\ last.op = "calculate_winrate_stats" => RateOk(last.result.winrate, last.result.games)

\* process_leaderboard_stats was handed an entry with more drops than losses and wins, and an
\* entry whose effective games are 0
C18_Witness ==
    /\ last.op = "process_leaderboard_stats"
    /\ \E i \in 1..Len(last.leaderboard_stats) :
          LET stat == last.leaderboard_stats[i]
          IN /\ Present(stat.leaderboard_id) /\ Present(stat.wins)
             /\ Present(stat.losses) /\ Present(stat.drops)
             /\ Val(stat.drops) > Val(stat.losses)
             /\ Val(stat.wins) > 0
             /\ Val(stat.leaderboard_id) \in DOMAIN last.result
             /\ last.result[Val(stat.leaderboard_id)].winrate = Percent(Val(stat.wins), Val(stat.wins))
    /\ \E id \in DOMAIN last.result : last.result[id].total_games = 0

----------------------------------------------------------------------------
(* The identity resolver called directly: validate_steamid and store_player_alias *)

\* 16 ASCII digits followed by a digit that is not ASCII
SteamIdOther == SubSeq(SteamIdA, 1, 16) \o <<"U+0663">>

\* the strings handed in as a platform ID: well-formed ones, too short, too long, empty, with a
\* letter, with a non-ASCII digit
IdStrings ==
    { SteamIdA, SteamIdB, SteamIdOther, ShortId, <<>>,
      SteamIdA \o <<"0">>,
      SubSeq(SteamIdA, 1, 16),
      <<"a", "b", "c">> \o SubSeq(SteamIdA, 1, 14) }

AliasTexts == {AliasAnn, AliasBob, <<>>, UnknownPlayer}

ValidateSteamId ==
    /\ last = Idle
    /\ \E steam_id \in IdStrings :
         last' = [op |-> "validate_steamid", steam_id |-> steam_id, result |-> validate_steamid(steam_id)]
    /\ QueryFrame

StoreAlias ==
    /\ last = Idle
    /\ \E steam_id \in IdStrings, alias \in AliasTexts :
         \E r \in {store_player_alias(player_aliases, steam_id, alias)} :
            /\ player_aliases' = r.pa
            /\ last' = [op |-> "store_player_alias", steam_id |-> steam_id, alias |-> alias,
                        changed |-> r.changed, pre |-> player_aliases]
    /\ UNCHANGED <<conn, stored_matches, processed_match_ids, match_file, alias_file, scan>>

\* str.lower() on the letters of the Latin alphabet; every other character is kept
UpperLetters == <<"A", "B", "C", "D", "E", "F", "G", "H", "I", "J", "K", "L", "M",
                  "N", "O", "P", "Q", "R", "S", "T", "U", "V", "W", "X", "Y", "Z">>
LowerLetters == <<"a", "b", "c", "d", "e", "f", "g", "h", "i", "j", "k", "l", "m",
                  "n", "o", "p", "q", "r", "s", "t", "u", "v", "w", "x", "y", "z">>

LowerChar(c) ==
    IF \E i \in 1..26 : UpperLetters[i] = c
    THEN LowerLetters[CHOOSE i \in 1..26 : UpperLetters[i] = c]
    ELSE c

Lower(s) == [i \in 1..Len(s) |-> LowerChar(s[i])]

\* p in s
Contains(s, p) == \E i \in 0..(Len(s) - Len(p)) : SubSeq(s, i + 1, i + Len(p)) = p

\* the orders in which player_aliases.items() may enumerate the directory: the order of
\* insertion, which the function player_aliases does not record
KeyOrders(pa) ==
    { o \in [1..Cardinality(DOMAIN pa) -> DOMAIN pa] :
        \A i, j \in DOMAIN o : i # j => o[i] # o[j] }

AllHits(pa, order, text) == SelectSeq(order, LAMBDA k : Contains(Lower(pa[k]), text))

\* the first limit elements of hits: the loop breaks once it has collected limit elements
Capped(hits, limit) == SubSeq(hits, 1, IF Len(hits) < limit THEN Len(hits) ELSE limit)

\* returns {steamid}, or {} for None
find_steamid_by_alias(pa, order, alias) ==
    LET alias_lower == Lower(alias)
        exact == SelectSeq(order, LAMBDA k : Lower(pa[k]) = alias_lower)
        matches == Capped(AllHits(pa, order, alias_lower), 50)
    IN IF exact # <<>> THEN {exact[1]}
       ELSE IF Len(matches) = 1 THEN {matches[1]}
       ELSE {}

resolve_player_identifier(pa, order, identifier) ==
    IF validate_steamid(identifier)
    THEN [steamid |-> {identifier},
          alias |-> IF identifier \in DOMAIN pa THEN pa[identifier] ELSE UnknownPlayer,
          similar_matches |-> <<>>]
    ELSE LET steamid == find_steamid_by_alias(pa, order, identifier)
         IN IF Present(steamid) /\ Val(steamid) # <<>>
            THEN [steamid |-> steamid, alias |-> pa[Val(steamid)], similar_matches |-> <<>>]
            ELSE LET hits == Capped(AllHits(pa, order, Lower(identifier)), 5)
                 IN [steamid |-> {}, alias |-> identifier,
                     similar_matches |-> [i \in 1..Len(hits) |-> pa[hits[i]]]]

\* what a user types as a player: a platform ID, a too short one, an alias in another case,
\* parts of aliases, the empty text, a text no alias contains
Identifiers ==
    { SteamIdA, ShortId, <<"a", "N", "n">>, <<"A", "N">>, <<"o", "b">>, <<>>, <<"z">> }

ResolveIdentifier ==
    /\ last = Idle
    /\ \E identifier \in Identifiers, order \in KeyOrders(player_aliases) :
         last' = [op |-> "resolve_player_identifier", identifier |-> identifier, order |-> order,
                  result |-> resolve_player_identifier(player_aliases, order, identifier)]
    /\ QueryFrame

NextIdentity == ValidateSteamId \/ StoreAlias \/ ResolveIdentifier \/ Return

SpecIdentity == Init /\ [][NextIdentity]_vars

----------------------------------------------------------------------------
(* Properties of the identity resolver *)

\* exactly 17 characters, each an ASCII digit 0-9
SeventeenAsciiDigits(s) == Len(s) = 17 /\ \A i \in 1..Len(s) : s[i] \in AsciiDigits

\* C19: validate_steamid(s) returns true if and only if s consists of exactly 17 characters,
\* each of them an ASCII digit
C19_ValidIsSeventeenAsciiDigits ==
    last.op = "validate_steamid" => (last.result <=> SeventeenAsciiDigits(last.steam_id))

AliasStoreCalled == last.op = "store_player_alias"

\* what store_player_alias is to do with an alias it accepts: report and make a change when
\* the ID is absent or maps to another alias, report none and leave the directory otherwise
StoresAndReports ==
    IF last.steam_id \notin DOMAIN last.pre \/ last.pre[last.steam_id] # last.alias
    THEN /\ last.changed
         /\ player_aliases = DictPut(last.pre, last.steam_id, last.alias)
    ELSE /\ ~last.changed
         /\ player_aliases = last.pre

\* C20: store_player_alias(id, alias) with a valid ID and an alias other than the placeholder
\* returns changed=true and sets the entry when the ID is absent or maps to a different alias,
\* and returns changed=false leaving the directory unchanged when the ID already maps to the
\* alias
C20_StoreReportsChange ==
    (AliasStoreCalled /\ SeventeenAsciiDigits(last.steam_id) /\ last.alias # UnknownPlayer)
        => StoresAndReports

\* C20 as amended: the same for a valid ID and a non-empty alias other than the placeholder;
\* an empty alias is rejected like the placeholder
C20_StoreReportsChangeNonEmpty ==
    /\ (AliasStoreCalled /\ SeventeenAsciiDigits(last.steam_id)
          /\ last.alias # UnknownPlayer /\ last.alias # <<>>)
         => StoresAndReports
    /\ (AliasStoreCalled /\ last.alias = <<>>)
         => (~last.changed /\ player_aliases = last.pre)

\* a call repeated with the alias the directory already holds for the ID returned false
C20_Witness ==
    /\ AliasStoreCalled
    /\ SeventeenAsciiDigits(last.steam_id)
    /\ last.steam_id \in DOMAIN last.pre
    /\ last.pre[last.steam_id] = last.alias
    /\ ~last.changed
    /\ Cardinality(DOMAIN player_aliases) = 2

----------------------------------------------------------------------------
(* The HTTP client: ConnectionManager and the fetch_json coroutines that    *)
(* share it.  A coroutine may be suspended at each await; the steps between *)
(* two awaits are one action.                                               *)

Callers == 1..MaxCallers

\* not (self._session is None or self._session.closed)
SessionOpen(cm) == cm.session # 0 /\ cm.session \notin cm.closed

\* the mutation of the lock that lets a coroutine in while another one holds it
LockAlwaysFree(cm) == TRUE

\* asyncio.Lock: acquire() returns once no coroutine holds the lock
LockFree(cm) == cm.lock = 0

EmptyObject == "{}"

\* response bodies: JSON documents, and a body that is no JSON
Documents == {"{}", "{matchHistoryStats}"}
Bodies == Documents \cup {"<html>"}
JsonParses(body) == body \in Documents

Returned(value) == [raised |-> FALSE, value |-> value]

\* the mutation of the handler that lets a failure of get_session escape to the caller
OnExceptionSessionEscapes(e) == [raised |-> e = "SessionError", value |-> EmptyObject]

\* except Exception as e: ... return {}
OnException(e) == Returned(EmptyObject)

\* what session.get(url) ends with: a network error, a timeout, or a response
Answers ==
    { [kind |-> "error", error |-> e, status |-> 0, body |-> "none"] :
          e \in {"ClientError", "TimeoutError"} }
    \cup { [kind |-> "response", error |-> "none", status |-> st, body |-> b] :
          st \in {200, 404, 500}, b \in Bodies }

\* the cause of a result, for the properties
CauseOf(answer) ==
    IF answer.kind = "error" THEN answer.error
    ELSE IF answer.status # 200 THEN "status"
    ELSE IF ~JsonParses(answer.body) THEN "malformed"
    ELSE "ok"

\* fetch_json from the request on, the session obtained
fetch_json(answer) ==
    IF answer.kind = "error" THEN OnException(answer.error)
    ELSE IF answer.status = 200
         THEN IF JsonParses(answer.body) THEN Returned(answer.body)
              ELSE OnException("ContentTypeError")
         ELSE Returned(EmptyObject)

Co(c) == conn.co[c]

\* fetch_json is called and enters get_session: the first test of self._session
EnterGetSession(c) ==
    /\ Co(c).pc = "idle"
    /\ conn' = [conn EXCEPT !.co[c] =
                   IF SessionOpen(conn)
                   THEN [NotCalled EXCEPT !.pc = "request", !.got = conn.session]
                   ELSE [NotCalled EXCEPT !.pc = "acquire", !.missed = TRUE]]
    /\ UNCHANGED <<stored_matches, processed_match_ids, player_aliases, match_file, alias_file, last, scan>>

\* async with self._lock, and the second test of self._session
AcquireLock(c) ==
    /\ Co(c).pc = "acquire"
    /\ LockFree(conn)
    /\ conn' = [conn EXCEPT !.lock = c,
                            !.co[c].pc = IF SessionOpen(conn) THEN "release" ELSE "create"]
    /\ UNCHANGED <<stored_matches, processed_match_ids, player_aliases, match_file, alias_file, last, scan>>

\* await self._create_session(): a new ClientSession is assigned to self._session, or the
\* construction raises, the lock is released and fetch_json catches the exception
CreateSession(c) ==
    /\ Co(c).pc = "create"
    /\ \/ /\ conn.created < MaxSessions
          /\ conn' = [conn EXCEPT !.created = conn.created + 1,
                                  !.session = conn.created + 1,
                                  !.co[c].pc = "release"]
       \/ /\ conn.failures < MaxFailures
          /\ conn' = [conn EXCEPT !.failures = conn.failures + 1,
                                  !.lock = 0,
                                  !.co[c].pc = "done",
                                  !.co[c].cause = "session",
                                  !.co[c].result = OnException("SessionError")]
    /\ UNCHANGED <<stored_matches, processed_match_ids, player_aliases, match_file, alias_file, last, scan>>

\* the lock is released and get_session returns self._session
ReleaseLock(c) ==
    /\ Co(c).pc = "release"
    /\ conn' = [conn EXCEPT !.lock = 0,
                            !.co[c].pc = "request",
                            !.co[c].got = conn.session]
    /\ UNCHANGED <<stored_matches, processed_match_ids, player_aliases, match_file, alias_file, last, scan>>

\* session.get(url) and response.json()
Request(c) ==
    /\ Co(c).pc = "request"
    /\ \E answer \in Answers :
         conn' = [conn EXCEPT !.co[c].pc = "done",
                              !.co[c].cause = CauseOf(answer),
                              !.co[c].result = fetch_json(answer)]
    /\ UNCHANGED <<stored_matches, processed_match_ids, player_aliases, match_file, alias_file, last, scan>>

\* the caller has its result; the coroutine may be called again
Finish(c) ==
    /\ Co(c).pc = "done"
    /\ ~Co(c).result.raised
    /\ conn' = [conn EXCEPT !.co[c] = NotCalled]
    /\ UNCHANGED <<stored_matches, processed_match_ids, player_aliases, match_file, alias_file, last, scan>>

\* connection_manager.close(), with no fetch_json in flight
CloseSession ==
    /\ \A c \in Callers : Co(c).pc = "idle"
    /\ SessionOpen(conn)
    /\ conn' = [conn EXCEPT !.closed = conn.closed \cup {conn.session}]
    /\ UNCHANGED <<stored_matches, processed_match_ids, player_aliases, match_file, alias_file, last, scan>>

NextClient ==
    \/ \E c \in Callers :
          \/ EnterGetSession(c)
          \/ AcquireLock(c)
          \/ CreateSession(c)
          \/ ReleaseLock(c)
          \/ Request(c)
          \/ Finish(c)
    \/ CloseSession

SpecClient == Init /\ [][NextClient]_vars

----------------------------------------------------------------------------
(* extract_elos called for one player, as the player commands call it       *)

\* what fetch_match_history can answer to a single call: the answers the scan sees, and a
\* history without a ranked 1v1 match
ExtractAnswers == HistoryAnswers \cup {History(<<>>)}

\* extract_elos(steam_id, batch_mode) from the answer of fetch_match_history on, with the
\* snapshot writes it makes
ExtractElos ==
    /\ last = Idle
    /\ \E steam_id \in {SteamIdA, SteamIdB}, response \in ExtractAnswers, batch_mode \in BOOLEAN :
         \E r \in {extract_elos(Mem, steam_id, response, batch_mode)} :
            /\ stored_matches' = r.sm
            /\ processed_match_ids' = r.pm
            /\ player_aliases' = r.pa
            /\ alias_file' = IF r.save_aliases THEN AliasDocument(r.pa) ELSE alias_file
            /\ match_file' = IF r.save_matches THEN MatchDocument(r.sm, r.pm) ELSE match_file
            /\ last' = [op |-> "extract_elos", steam_id |-> steam_id, response |-> response,
                        batch_mode |-> batch_mode, raised |-> r.raised, evaluated |-> r.evaluated,
                        matches_stored |-> r.matches_stored, pre |-> Mem]
    /\ UNCHANGED <<conn, scan>>

NextExtract == ExtractElos \/ Return

SpecExtract == Init /\ [][NextExtract]_vars

----------------------------------------------------------------------------
(* The live leaderboard views: get_faction_leaderboard and topelo.  They    *)
(* read the upstream answer only; the 'streak' field, which is copied, is   *)
(* left out.                                                                *)

BoardStat(lb, sg, rank, rating, wins, losses, drops) ==
    [leaderboard_id |-> lb, statgroup_id |-> sg, rank |-> rank, rating |-> rating,
     wins |-> wins, losses |-> losses, drops |-> drops]

BoardGroup(id, members) == [id |-> id, members |-> members]

\* the answer of fetch_leaderboard_data; {} is the answer without either list
LbData(stats, groups) == [leaderboardStats |-> stats, statGroups |-> groups]
NoLbData == LbData(<<>>, <<>>)

\* rank_lookup[statgroup_id] = info on the insertion-ordered dict, kept as the sequence of
\* its values in key order: a known key keeps its position
RECURSIVE RankPut(_, _, _)
RankPut(d, statgroup_id, info) ==
    IF d = <<>> THEN <<info>>
    ELSE IF Head(d).statgroup_id = statgroup_id THEN <<info>> \o Tail(d)
    ELSE <<Head(d)>> \o RankPut(Tail(d), statgroup_id, info)

\* the loop that fills rank_lookup, over the first i entries of leaderboardStats
RECURSIVE rank_lookup(_, _, _)
rank_lookup(race_id, stats, i) ==
    IF i = 0 THEN <<>>
    ELSE LET stat == stats[i]
             before == rank_lookup(race_id, stats, i - 1)
         IN IF stat.leaderboard_id = {race_id} /\ Present(stat.statgroup_id)
               /\ Val(stat.statgroup_id) # 0
            THEN RankPut(before, Val(stat.statgroup_id),
                            [statgroup_id |-> Val(stat.statgroup_id),
                             rank |-> stat.rank,
                             rating |-> GetOr(stat.rating, 0),
                             wins |-> GetOr(stat.wins, 0),
                             losses |-> GetOr(stat.losses, 0),
                             drops |-> GetOr(stat.drops, 0)])
            ELSE before

\* whether the stat group gets an entry of player_lookup
HasIdentity(stat_group) ==
    /\ Present(stat_group.id) /\ Val(stat_group.id) # 0
    /\ stat_group.members # <<>>
    /\ StartsWith(NameOf(stat_group.members[1]), SteamPrefix)
    /\ validate_steamid(RemoveAll(NameOf(stat_group.members[1]), SteamPrefix))

\* the loop that fills player_lookup, over the first i stat groups
RECURSIVE player_lookup(_, _)
player_lookup(groups, i) ==
    IF i = 0 THEN EmptyDict
    ELSE IF HasIdentity(groups[i])
         THEN DictPut(player_lookup(groups, i - 1), Val(groups[i].id),
                      [steamid |-> RemoveAll(NameOf(groups[i].members[1]), SteamPrefix),
                       alias |-> AliasOf(groups[i].members[1])])
         ELSE player_lookup(groups, i - 1)

\* the entries of rank_lookup that have a player in player_lookup, in the order of
\* rank_lookup, with the derived counts
Joined(race_id, lb_data) ==
    LET ranks == rank_lookup(race_id, lb_data.leaderboardStats, Len(lb_data.leaderboardStats))
        players == player_lookup(lb_data.statGroups, Len(lb_data.statGroups))
        known == SelectSeq(ranks, LAMBDA info : info.statgroup_id \in DOMAIN players)
    IN [i \in 1..Len(known) |->
          LET rank_info == known[i]
              actual_losses == ActualLosses(rank_info.losses, rank_info.drops)
              total_games == rank_info.wins + actual_losses
          IN [steamid |-> players[rank_info.statgroup_id].steamid,
              alias |-> players[rank_info.statgroup_id].alias,
              rank |-> rank_info.rank,
              rating |-> rank_info.rating,
              wins |-> rank_info.wins,
              losses |-> actual_losses,
              total_games |-> total_games,
              winrate |-> IF total_games > 0 THEN Percent(rank_info.wins, total_games) ELSE ZeroRate]]

\* x['rank'] if x['rank'] is not None else float('inf'), compared
RankNotAfter(a, b) == ~Present(b.rank) \/ (Present(a.rank) /\ Val(a.rank) <= Val(b.rank))

\* x placed behind the entries whose sort key is not greater
RECURSIVE InsertByRank(_, _)
InsertByRank(sorted, x) ==
    IF sorted = <<>> THEN <<x>>
    ELSE IF RankNotAfter(Head(sorted), x)
         THEN <<Head(sorted)>> \o InsertByRank(Tail(sorted), x)
         ELSE <<x>> \o sorted

RECURSIVE SortByRank(_, _)
SortByRank(players, i) ==
    IF i = 0 THEN <<>> ELSE InsertByRank(SortByRank(players, i - 1), players[i])

get_faction_leaderboard(race_id, lb_data) ==
    IF lb_data.leaderboardStats = <<>> \/ lb_data.statGroups = <<>> THEN <<>>
    ELSE LET faction_players == Joined(race_id, lb_data)
         IN SortByRank(faction_players, Len(faction_players))

\* the stat groups of a page: group 11 is player A, group 12 is player B, group 13 has a
\* name that is no platform ID, group 14 has no members
BoardGroups ==
    << BoardGroup({11}, <<GroupMember({SteamPrefix \o SteamIdA}, {AliasAnn})>>),
       BoardGroup({12}, <<GroupMember({SteamPrefix \o SteamIdB}, {AliasBob})>>),
       BoardGroup({13}, <<GroupMember({SteamPrefix \o ShortId}, {AliasBob})>>),
       BoardGroup({14}, <<>>) >>

\* rank entries of leaderboard 1 and one of leaderboard 2: ranks 1 and 2, -1 and 0 as the
\* upstream sends them for a player without rank, no rank, more drops than losses, a group
\* without identity, a group that is not on the page
BoardStats ==
    { BoardStat({1}, {11}, {1}, {1700}, {30}, {10}, {0}),
      BoardStat({1}, {12}, {2}, {1650}, {20}, {5}, {7}),
      BoardStat({1}, {11}, {-1}, {1000}, {0}, {0}, {0}),
      BoardStat({1}, {12}, {0}, {1200}, {1}, {1}, {0}),
      BoardStat({1}, {12}, {}, {1300}, {2}, {1}, {0}),
      BoardStat({1}, {13}, {3}, {1600}, {9}, {9}, {0}),
      BoardStat({1}, {14}, {4}, {1550}, {9}, {9}, {0}),
      BoardStat({1}, {15}, {5}, {1500}, {9}, {9}, {0}),
      BoardStat({2}, {12}, {1}, {1800}, {40}, {4}, {0}),
      BoardStat({1}, {}, {6}, {1400}, {1}, {1}, {0}) }

\* the pages get_faction_leaderboard is given: no data, no stat groups, up to two entries
BoardPages ==
    {NoLbData}
    \cup { LbData(<<a>>, <<>>) : a \in BoardStats }
    \cup { LbData(<<a>>, BoardGroups) : a \in BoardStats }
    \cup { LbData(<<a, b>>, BoardGroups) : a \in BoardStats, b \in BoardStats }

FactionLeaderboardQuery ==
    /\ last = Idle
    /\ \E race_id \in {1, 2}, lb_data \in BoardPages :
         \E r \in {get_faction_leaderboard(race_id, lb_data)} :
            last' = [op |-> "get_faction_leaderboard", race_id |-> race_id, lb_data |-> lb_data,
                     result |-> r]
    /\ QueryFrame

\* if rank is None or rank <= 0 or rank > 100: continue
RankOutOfRange(rank) == ~Present(rank) \/ Val(rank) <= 0 \/ Val(rank) > 100

\* all_players[steam_id] = player_data on the insertion-ordered dict: a known key keeps its
\* position
RECURSIVE PlayerPut(_, _, _)
PlayerPut(d, steam_id, player_data) ==
    IF d = <<>> THEN <<player_data>>
    ELSE IF Head(d).steam_id = steam_id THEN <<player_data>> \o Tail(d)
    ELSE <<Head(d)>> \o PlayerPut(Tail(d), steam_id, player_data)

\* if rank_info['rank'] == 1
IsLeaderRank(rank) == rank = {1}

\* the loop of topelo over the joined entries of one leaderboard, from entry i on
RECURSIVE TopEloEntries(_, _, _, _, _)
TopEloEntries(acc, lb_id, joined, i, min_games) ==
    IF i > Len(joined) THEN acc
    ELSE LET e == joined[i]
         IN IF RankOutOfRange(e.rank) \/ e.total_games < min_games
            THEN TopEloEntries(acc, lb_id, joined, i + 1, min_games)
            ELSE LET leaders == IF IsLeaderRank(e.rank)
                                THEN acc.faction_leaders \cup {e.steamid}
                                ELSE acc.faction_leaders
                     player_data == [steam_id |-> e.steamid, alias |-> e.alias,
                                     rating |-> e.rating, faction_id |-> lb_id,
                                     wins |-> e.wins, losses |-> e.losses,
                                     total_games |-> e.total_games, winrate |-> e.winrate,
                                     rank |-> e.rank]
                     kept == SelectSeq(acc.all_players, LAMBDA p : p.steam_id = e.steamid)
                     players == IF kept = <<>> \/ e.rating > kept[1].rating
                                THEN PlayerPut(acc.all_players, e.steamid, player_data)
                                ELSE acc.all_players
                 IN TopEloEntries([all_players |-> players, faction_leaders |-> leaders],
                                  lb_id, joined, i + 1, min_games)

\* the loop of topelo over known_leaderboards, from leaderboard lb_id on; pages[lb_id] is
\* the answer of fetch_leaderboard_data(lb_id, 1, 100)
RECURSIVE TopEloBoards(_, _, _, _)
TopEloBoards(acc, pages, lb_id, min_games) ==
    IF lb_id > 9 THEN acc
    ELSE LET lb_data == pages[lb_id]
         IN IF lb_data.leaderboardStats = <<>> \/ lb_data.statGroups = <<>>
            THEN TopEloBoards(acc, pages, lb_id + 1, min_games)
            ELSE TopEloBoards(TopEloEntries(acc, lb_id, Joined(lb_id, lb_data), 1, min_games),
                              pages, lb_id + 1, min_games)

\* x placed behind the players whose rating is not smaller
RECURSIVE InsertByRating(_, _)
InsertByRating(sorted, x) ==
    IF sorted = <<>> THEN <<x>>
    ELSE IF Head(sorted).rating >= x.rating
         THEN <<Head(sorted)>> \o InsertByRating(Tail(sorted), x)
         ELSE <<x>> \o sorted

RECURSIVE SortByRating(_, _)
SortByRating(players, i) ==
    IF i = 0 THEN <<>> ELSE InsertByRating(SortByRating(players, i - 1), players[i])

topelo(pages, limit, min_games) ==
    LET acc == TopEloBoards([all_players |-> <<>>, faction_leaders |-> {}], pages, 1, min_games)
        top_players ==
            [i \in 1..Len(acc.all_players) |->
                [steam_id |-> acc.all_players[i].steam_id,
                 alias |-> acc.all_players[i].alias,
                 rating |-> acc.all_players[i].rating,
                 faction_id |-> acc.all_players[i].faction_id,
                 wins |-> acc.all_players[i].wins,
                 losses |-> acc.all_players[i].losses,
                 total_games |-> acc.all_players[i].total_games,
                 winrate |-> acc.all_players[i].winrate,
                 rank |-> acc.all_players[i].rank,
                 is_faction_leader |-> acc.all_players[i].steam_id \in acc.faction_leaders]]
    IN SliceTo(SortByRating(top_players, Len(top_players)), limit)

\* what a faction leaderboard holds for a player: nothing, rank 1 after few games, rank 1
\* after many games, a lower rank with a higher or a lower rating
Standings ==
    { <<>>,
      <<{1}, {1500}, {5}>>,
      <<{1}, {1700}, {50}>>,
      <<{3}, {1600}, {50}>>,
      <<{101}, {1400}, {50}>> }

StandingStat(lb_id, sg, standing) ==
    IF standing = <<>> THEN <<>>
    ELSE <<BoardStat({lb_id}, {sg}, standing[1], standing[2], standing[3], {0}, {0})>>

\* the answers for the 9 leaderboards: players A and B stand on leaderboards 1 and 2, the
\* other leaderboards have no data
TopEloPages(a1, a2, b1, b2) ==
    [lb_id \in 1..9 |->
        IF lb_id = 1 THEN LbData(StandingStat(1, 11, a1) \o StandingStat(1, 12, b1), BoardGroups)
        ELSE IF lb_id = 2 THEN LbData(StandingStat(2, 11, a2) \o StandingStat(2, 12, b2), BoardGroups)
        ELSE NoLbData]

TopEloQuery ==
    /\ last = Idle
    /\ \E a1 \in Standings, a2 \in Standings, b1 \in Standings \ {<<{1}, {1500}, {5}>>},
          b2 \in {<<>>, <<{3}, {1600}, {50}>>}, limit \in {1, 50}, min_games \in {0, 10} :
         \E pages \in {TopEloPages(a1, a2, b1, b2)} :
            \E r \in {topelo(pages, limit, min_games)} :
               last' = [op |-> "topelo", pages |-> pages, limit |-> limit,
                        min_games |-> min_games, result |-> r]
    /\ QueryFrame

NextBoards == FactionLeaderboardQuery \/ TopEloQuery \/ Return

SpecBoards == Init /\ [][NextBoards]_vars

----------------------------------------------------------------------------
(* Properties of identifier resolution and of the HTTP client *)

ResolveCalled == last.op = "resolve_player_identifier"

\* the identifier equals no stored alias when letter case is ignored
NoAliasEquals(identifier) ==
    \A k \in DOMAIN player_aliases : Lower(player_aliases[k]) # Lower(identifier)

\* the stored aliases that contain the identifier when letter case is ignored
AliasesContaining(identifier) ==
    { k \in DOMAIN player_aliases : Contains(Lower(player_aliases[k]), Lower(identifier)) }

\* C21: resolve_player_identifier(identifier), for an identifier that is not a valid platform
\* ID and equals no stored alias case-insensitively, returns no resolved ID, only the list of
\* suggestions, however many stored aliases contain the identifier as a substring
C21_SubstringNeverResolves ==
    (ResolveCalled /\ ~SeventeenAsciiDigits(last.identifier) /\ NoAliasEquals(last.identifier))
        => /\ last.result.steamid = {}
           /\ \A i \in 1..Len(last.result.similar_matches) :
                  Contains(Lower(last.result.similar_matches[i]), Lower(last.identifier))

\* C22: fetch_json never raises to its caller: a non-200 status, a network or timeout error,
\* a failure while obtaining the session, or a malformed JSON body each yield an empty object
C22_FetchNeverRaises ==
    \A c \in Callers :
        Co(c).pc = "done" =>
            /\ ~Co(c).result.raised
            /\ Co(c).cause # "ok" => Co(c).result.value = EmptyObject

\* one fetch_json ended on a failure to obtain the session, another on a malformed body
C22_Witness ==
    \E c, d \in Callers :
        /\ Co(c).pc = "done" /\ Co(c).cause = "session"
        /\ Co(d).pc = "done" /\ Co(d).cause = "malformed"

\* C26: under any interleaving of concurrent get_session calls on a connection manager that
\* has no open session, exactly one session is created and every caller receives that same
\* session: no session is created while an earlier one is not closed, and a session a
\* caller holds is the open session of the manager
C26_OneSessionForAll ==
    /\ conn.created <= Cardinality(conn.closed) + 1
    /\ \A c \in Callers :
          Co(c).got # 0 => (Co(c).got = conn.session /\ SessionOpen(conn))

\* two callers that both found no open session hold the one session that was created
C26_Witness ==
    \E c, d \in Callers :
        /\ c # d
        /\ Co(c).missed /\ Co(d).missed
        /\ Co(c).got = conn.session /\ Co(d).got = conn.session
        /\ SessionOpen(conn)
        /\ conn.created = 1

PlayerMatchesCalled == last.op = "get_matches_by_player"

\* the stored matches in which the player takes part
MatchesOf(steam_id) ==
    { m \in Elems(stored_matches) : m.player1_steamid = steam_id \/ m.player2_steamid = steam_id }

\* C23: get_matches_by_player(id, limit) returns only stored matches in which id is one of
\* the two participants, in non-increasing completion-time order, and returns the
\* min(limit, number of such matches) most recent of them: never more than limit matches,
\* and none when limit <= 0
C23_MostRecentUpToLimit ==
    PlayerMatchesCalled =>
        LET r == last.result
            own == MatchesOf(last.steam_id)
        IN /\ Elems(r) \subseteq own
           /\ \A i, j \in 1..Len(r) : i < j => r[i].completion_time >= r[j].completion_time
           /\ \A i, j \in 1..Len(r) : r[i] = r[j] => i = j
           /\ \A m \in own \ Elems(r) : \A i \in 1..Len(r) : r[i].completion_time >= m.completion_time
           /\ Len(r) = IF last.limit <= 0 THEN 0
                       ELSE IF last.limit < Cardinality(own) THEN last.limit ELSE Cardinality(own)

FactionLeaderboardCalled == last.op = "get_faction_leaderboard"

\* the entry is joined by stat-group id to a stat group of the page whose first member
\* names a valid platform ID
JoinedToIdentity(entry, race_id, lb_data) ==
    \E i \in 1..Len(lb_data.leaderboardStats), j \in 1..Len(lb_data.statGroups) :
        LET stat == lb_data.leaderboardStats[i]
            group == lb_data.statGroups[j]
        IN /\ stat.leaderboard_id = {race_id}
           /\ Present(stat.statgroup_id) /\ stat.statgroup_id = group.id
           /\ stat.rank = entry.rank
           /\ group.members # <<>>
           /\ NameOf(group.members[1]) = SteamPrefix \o entry.steamid
           /\ SeventeenAsciiDigits(entry.steamid)

\* C24: get_faction_leaderboard returns only ranked entries (a present, positive rank) that
\* are joined to a valid player identity by stat-group id, sorted ascending by rank, with
\* any entry lacking a rank placed last
C24_OnlyRankedEntries ==
    FactionLeaderboardCalled =>
        LET r == last.result
        IN /\ \A i \in 1..Len(r) : Present(r[i].rank) /\ Val(r[i].rank) > 0
           /\ \A i \in 1..Len(r) : JoinedToIdentity(r[i], last.race_id, last.lb_data)
           /\ \A i, j \in 1..Len(r) :
                 (i < j /\ Present(r[i].rank) /\ Present(r[j].rank)) => Val(r[i].rank) <= Val(r[j].rank)
           /\ \A i, j \in 1..Len(r) : (i < j /\ ~Present(r[i].rank)) => ~Present(r[j].rank)

TopEloCalled == last.op = "topelo"

\* the player holds rank 1 on one of the 9 leaderboards that were fetched
HoldsRankOne(steam_id, pages) ==
    \E lb_id \in 1..9 :
        LET joined == Joined(lb_id, pages[lb_id])
        IN \E i \in 1..Len(joined) : joined[i].steamid = steam_id /\ joined[i].rank = {1}

\* C25: in the top-ELO view, a returned player is flagged as a faction leader if and only if
\* that player holds rank 1 in at least one of the 9 fetched faction leaderboards, whichever
\* faction entry is the one kept for that player
C25_LeaderIffRankOne ==
    TopEloCalled =>
        \A i \in 1..Len(last.result) :
            last.result[i].is_faction_leader <=> HoldsRankOne(last.result[i].steam_id, last.pages)

----------------------------------------------------------------------------
(* Properties of the bulk scan's bookkeeping and of the Alias Directory *)

\* C27: after a single-player ingestion (extract_elos in non-batch mode) that changed the
\* Alias Directory, the Alias Directory snapshot has been written to persisted state by the
\* time the operation returns
C27_ChangedAliasesArePersisted ==
    (last.op = "extract_elos" /\ ~last.batch_mode /\ ~last.raised /\ player_aliases # last.pre.pa)
        => alias_file = AliasDocument(player_aliases)

\* C28: after any sequence of ingestion operations, every Alias Directory key is a valid
\* 17-digit platform ID and no value is the placeholder "Unknown Player" or empty
C28_DirectoryIsClean ==
    \A k \in DOMAIN player_aliases :
        /\ SeventeenAsciiDigits(k)
        /\ player_aliases[k] # UnknownPlayer
        /\ player_aliases[k] # <<>>

\* C29: the matches-added figure in a bulk scan's returned summary equals the number of
\* matches that scan itself inserted into the Match Store
C29_MatchesAddedIsExact ==
    scan.pc = "returned" => scan.results.total_matches_added = scan.inserted

\* C30: no snapshot write, of matches or of aliases, happens during a bulk scan before the
\* last leaderboard has been processed
C30_NoWriteBeforeLastLeaderboard ==
    (scan.match_saves > 0 \/ scan.alias_saves > 0 \/ match_file # NoFile \/ alias_file # NoAliasFile)
        => (scan.pc = "returned" /\ scan.visited = AllLeaderboards)

\* the scan is past a player whose history inserted a match and changed the Alias Directory
C30_Witness ==
    /\ scan.pc = "sleep_player"
    /\ scan.inserted > 0
    /\ last.op = "extract_elos"
    /\ ~last.raised
    /\ Cardinality(DOMAIN player_aliases) = 2
    /\ match_file = NoFile

====
